---- MODULE Spec2Model ----
(***************************************************************************)
(* Webhook ingestion, message normalisation and background dispatch of the *)
(* wecom-assistant: wechat_callback (main.py), process_messages (main.py), *)
(* invoke_agent (agent.py), the outbound senders (wecom_handler.py), the   *)
(* structured logger (logging_config.py) and the exception wrapper         *)
(* (exceptions.py).                                                        *)
(***************************************************************************)
EXTENDS Integers, Sequences, FiniteSets, TLC

\* ---------------------------------------------------------------- bounds
\* number of webhook requests the platform delivers in one behaviour
MaxRequests == 2
\* length of the message list the platform returns to kf/sync_msg
MaxMsgs == 1

\* ------------------------------------------------------------ base values
\* Python None / empty string: every falsy field value
NoVal == "None"

\* texts (the Chinese literals of the source, named)
\* "抱歉，我无法回答。"  agent.py:152
CannotAnswer == "sorry_cannot_answer"
\* "抱歉，系统遇到了一些问题，请稍后再试。"  exceptions.py:47, agent.py:180
GenericApology == "sorry_system_problem_try_later"
\* "系统验证失败，请联系管理员。"  exceptions.py:98
SignatureApology == "verification_failed_contact_admin"
\* "处理时间较长，请稍后再试。"  exceptions.py:106
TimeoutApology == "processing_slow_try_later"
\* "系统繁忙，请稍后再试。"  exceptions.py:114
QuotaApology == "system_busy_try_later"
\* "网络连接异常，请稍后再试。"  exceptions.py:122
NetworkApology == "network_problem_try_later"
\* "我暂时无法处理这种类型的消息。"  main.py:272
UnsupportedApology == "cannot_handle_this_message_type"
\* the final answer text an agent executor run produces
AgentAnswer == "agent_answer"

ApologyTexts ==
  {GenericApology, SignatureApology, TimeoutApology, QuotaApology,
   NetworkApology}

WECOM_AGENT_ID == "agent1"

\* ------------------------------------------------------------- exceptions
\* An exception value.  An unwrapped exception carries its Python type and
\* the set kw of handle_exception keywords that occur in its lower-cased
\* message; a wrapped one (WecomAssistantException and subclasses) carries
\* error_code and user_message.
NoExc ==
  [wrapped |-> FALSE, type |-> "none", kw |-> {}, error_code |-> NoVal,
   user_message |-> NoVal]

Exc(type, kw) ==
  [wrapped |-> FALSE, type |-> type, kw |-> kw, error_code |-> NoVal,
   user_message |-> NoVal]

WecomAssistantException(cls, code, user_message) ==
  [wrapped |-> TRUE, type |-> cls, kw |-> {}, error_code |-> code,
   user_message |-> IF user_message = NoVal THEN GenericApology
                    ELSE user_message]

\* handle_exception looking for timeout before signature
handle_exception_timeout_first(exc) ==
  IF exc.wrapped THEN exc
  ELSE IF "timeout" \in exc.kw
    THEN WecomAssistantException("LLMException", "LLM_002", TimeoutApology)
  ELSE IF "signature" \in exc.kw
    THEN WecomAssistantException("WecomException", "WECOM_001",
                                 SignatureApology)
  ELSE IF "quota" \in exc.kw \/ "rate" \in exc.kw
    THEN WecomAssistantException("LLMException", "LLM_003", QuotaApology)
  ELSE IF "network" \in exc.kw \/ "connection" \in exc.kw
    THEN WecomAssistantException("WecomAssistantException", "SYS_002",
                                 NetworkApology)
  ELSE WecomAssistantException("WecomAssistantException", "SYS_999", NoVal)

\* handle_exception classifying wrapped exceptions like any other
handle_exception_rewrap(exc) ==
  IF "signature" \in exc.kw
    THEN WecomAssistantException("WecomException", "WECOM_001",
                                 SignatureApology)
  ELSE IF "timeout" \in exc.kw
    THEN WecomAssistantException("LLMException", "LLM_002", TimeoutApology)
  ELSE IF "quota" \in exc.kw \/ "rate" \in exc.kw
    THEN WecomAssistantException("LLMException", "LLM_003", QuotaApology)
  ELSE IF "network" \in exc.kw \/ "connection" \in exc.kw
    THEN WecomAssistantException("WecomAssistantException", "SYS_002",
                                 NetworkApology)
  ELSE WecomAssistantException("WecomAssistantException", "SYS_999", NoVal)

\* exceptions.py:71-130
handle_exception(exc) ==
  IF exc.wrapped THEN exc
  ELSE IF "signature" \in exc.kw
    THEN WecomAssistantException("WecomException", "WECOM_001",
                                 SignatureApology)
  ELSE IF "timeout" \in exc.kw
    THEN WecomAssistantException("LLMException", "LLM_002", TimeoutApology)
  ELSE IF "quota" \in exc.kw \/ "rate" \in exc.kw
    THEN WecomAssistantException("LLMException", "LLM_003", QuotaApology)
  ELSE IF "network" \in exc.kw \/ "connection" \in exc.kw
    THEN WecomAssistantException("WecomAssistantException", "SYS_002",
                                 NetworkApology)
  ELSE WecomAssistantException("WecomAssistantException", "SYS_999", NoVal)

\* ErrorReporter.report_error, exceptions.py:139-142
report_error(counts, exc) ==
  IF exc.error_code \in DOMAIN counts
    THEN [counts EXCEPT ![exc.error_code] = @ + 1]
    ELSE counts @@ (exc.error_code :> 1)

\* get_error_stats handing out the reporter's own dict
get_error_stats_alias(counts) == [object |-> "error_counts", items |-> counts]

\* ErrorReporter.get_error_stats, exceptions.py:144-146: a new dict with
\* the items of error_counts
get_error_stats(counts) == [object |-> "copy", items |-> counts]

\* ErrorReporter.reset_stats, exceptions.py:148-150
reset_stats(counts) == <<>>

\* ---------------------------------------------------------------- logging
\* attributes of a logging.LogRecord: Logger.makeRecord raises KeyError when
\* a key of `extra` is one of them
LogRecordAttrs ==
  {"name", "msg", "args", "levelname", "levelno", "pathname", "filename",
   "module", "exc_info", "exc_text", "stack_info", "lineno", "funcName",
   "created", "msecs", "relativeCreated", "thread", "threadName",
   "processName", "process", "taskName", "message", "asctime"}

LevelNo(level) ==
  CASE level = "debug" -> 10
    [] level = "info" -> 20
    [] level = "warning" -> 30
    [] level = "error" -> 40
    [] level = "critical" -> 50

\* self.logger.setLevel(logging.INFO), logging_config.py:54
LoggerLevel == 20

\* "Attempt to overwrite 'exc_info' in LogRecord": no keyword occurs in it
LogKeyError == Exc("KeyError", {})

\* WecomAssistantLogger._log_with_extra, logging_config.py:94-97: every
\* keyword argument that is not None goes into `extra`.  TRUE iff the call
\* raises.
log_with_extra(level, keys) ==
  /\ LevelNo(level) >= LoggerLevel
  /\ keys \cap LogRecordAttrs # {}

\* the keyword arguments log_exception adds to its caller's
ExceptionLogKeys == {"exception_type", "context", "exc_info", "event"}

\* WecomAssistantLogger.log_exception, logging_config.py:187-196.  TRUE iff
\* the call raises.
log_exception(keys) == log_with_extra("error", keys \cup ExceptionLogKeys)

\* WecomAssistantLogger.log_request_end, logging_config.py:129-140
log_request_end(success) ==
  log_with_extra(IF success THEN "info" ELSE "error",
                 {"user_id", "request_id", "execution_time", "success",
                  "event"})

\* ------------------------------------------------------ platform messages
MediaTypes == {"image", "video", "voice", "file"}

\* one entry of the msg_list of kf/sync_msg (a dict in the source); a field
\* the dict lacks is NoVal, items are the children of a merged_msg, each
\* [sender_name, msg] with msg the parsed msg_content
KfMsg(msgtype, external_userid, event_type, items) ==
  [content |-> IF msgtype = "text" THEN "content" ELSE NoVal,
   event_external_userid |-> IF msgtype = "event" THEN "u3" ELSE NoVal,
   event_type |-> event_type, external_userid |-> external_userid,
   items |-> items,
   media_id |-> IF msgtype \in MediaTypes THEN "media1" ELSE NoVal,
   msgtype |-> msgtype, sender_name |-> NoVal]

\* a context line handed to the agent: sender, what was sent, payload
TextLine(user_id, content) ==
  [body |-> content, kind |-> "text", sender |-> user_id]

MediaLine(user_id, msgtype, media_url) ==
  [body |-> media_url, kind |-> msgtype, sender |-> user_id]

\* the platform API failing (client.post, client.access_token,
\* client.message.send_text raising)
ApiError == Exc("WeChatClientException", {})

\* get_media_url, wecom_handler.py:26-34: reads client.access_token (fetched
\* from the platform when not cached) and formats the URL, which is named
\* here by the media id it embeds
get_media_url(media_id, token_exc) ==
  [value |-> media_id, calls |-> <<"access_token">>, raised |-> token_exc]

\* extract_content, main.py:65-82: the lines appended to output_contents,
\* and the exception that ends the call (NoExc when it returns)
RECURSIVE extract_content(_, _, _)
RECURSIVE extract_items(_, _)
RECURSIVE extract_items_reversed(_, _)
extract_content(msg, sender_name, token_exc) ==
  LET user_id == IF sender_name # NoVal THEN sender_name
                 ELSE IF msg.sender_name # NoVal THEN msg.sender_name
                 ELSE msg.external_userid
      media == get_media_url(msg.media_id, token_exc)
  IN  IF msg.msgtype = "text"
        THEN [lines |-> <<TextLine(user_id, msg.content)>>, calls |-> <<>>,
              raised |-> NoExc]
      ELSE IF msg.msgtype \in MediaTypes
        THEN IF media.raised # NoExc
               THEN [lines |-> <<>>, calls |-> media.calls,
                     raised |-> media.raised]
               ELSE [lines |-> <<MediaLine(user_id, msg.msgtype, media.value)>>,
                     calls |-> media.calls, raised |-> NoExc]
      ELSE IF msg.msgtype = "event" /\ msg.event_type = "enter_session"
        THEN [lines |-> <<TextLine(msg.event_external_userid, "hello")>>,
              calls |-> <<>>, raised |-> NoExc]
      ELSE IF msg.msgtype = "merged_msg"
        THEN extract_items(msg.items, token_exc)
      ELSE [lines |-> <<>>, calls |-> <<>>, raised |-> NoExc]

\* extract_items walking merged_msg_list from its last item to its first
extract_items_reversed(items, token_exc) ==
  IF items = <<>> THEN [lines |-> <<>>, calls |-> <<>>, raised |-> NoExc]
  ELSE LET n == Len(items)
           first == extract_content(items[n].msg, items[n].sender_name,
                                    token_exc)
           rest == extract_items_reversed(SubSeq(items, 1, n - 1), token_exc)
       IN  IF first.raised # NoExc THEN first
           ELSE [lines |-> first.lines \o rest.lines,
                 calls |-> first.calls \o rest.calls, raised |-> rest.raised]

\* the list comprehension of main.py:82 over merged_msg_list
extract_items(items, token_exc) ==
  IF items = <<>> THEN [lines |-> <<>>, calls |-> <<>>, raised |-> NoExc]
  ELSE LET first == extract_content(Head(items).msg, Head(items).sender_name,
                                    token_exc)
           rest == extract_items(Tail(items), token_exc)
       IN  IF first.raised # NoExc THEN first
           ELSE [lines |-> first.lines \o rest.lines,
                 calls |-> first.calls \o rest.calls, raised |-> rest.raised]

\* the loop of wecom_handler.py:59-64 over reversed(msg_list), from index i
\* down: newest first, stopping after the newest enter_session event
RECURSIVE latest_msg_list(_, _)
latest_msg_list(msg_list, i) ==
  IF i = 0 THEN <<>>
  ELSE IF msg_list[i].msgtype = "event"
          /\ msg_list[i].event_type = "enter_session"
    THEN <<msg_list[i]>>
  ELSE <<msg_list[i]>> \o latest_msg_list(msg_list, i - 1)

\* seq[:5][::-1]
FirstFiveReversed(seq) ==
  LET n == IF Len(seq) < 5 THEN Len(seq) ELSE 5
  IN  [k \in 1..n |-> seq[n + 1 - k]]

\* sync_kf_messages, wecom_handler.py:37-70: post_exc is the outcome of
\* client.post("kf/sync_msg") and msg_list the list it returns
sync_kf_messages(open_kfid, token, post_exc, msg_list) ==
  IF token = NoVal
    THEN [value |-> <<>>, called |-> FALSE,
          raised |-> IF log_with_extra("warning", {}) THEN LogKeyError
                     ELSE NoExc]
  ELSE IF post_exc # NoExc
    THEN [value |-> <<>>, called |-> TRUE,
          raised |-> IF log_exception({"open_kfid"}) THEN LogKeyError
                     ELSE NoExc]
  ELSE IF log_with_extra("info", {"open_kfid"})
    THEN [value |-> <<>>, called |-> TRUE, raised |-> LogKeyError]
  ELSE [value |-> FirstFiveReversed(latest_msg_list(msg_list, Len(msg_list))),
        called |-> TRUE, raised |-> NoExc]

\* -------------------------------------------------------- outbound sender
\* one call of an outbound send API and whether it delivered
SendCall(api, open_kfid, touser, text, exc) ==
  [api |-> api, open_kfid |-> open_kfid, touser |-> touser, text |-> text,
   ok |-> exc = NoExc]

\* send_kf_message, wecom_handler.py:72-91
send_kf_message(open_kfid, touser, msg_content, post_exc) ==
  [calls |-> <<SendCall("kf/send_msg", open_kfid, touser, msg_content,
                        post_exc)>>,
   raised |-> IF post_exc = NoExc
                THEN IF log_with_extra("info",
                                       {"open_kfid", "touser", "response"})
                       THEN LogKeyError ELSE NoExc
                ELSE IF log_exception({"open_kfid", "touser"})
                       THEN LogKeyError ELSE NoExc]

\* client.message.send_text (wechatpy), called at main.py:118, 144, 272
send_text(agent_id, user_id, content, exc) ==
  [calls |-> <<SendCall("message/send", NoVal, user_id, content, exc)>>,
   raised |-> exc]

\* send_reply with the session id ignored: always the direct-message API
send_reply_direct(open_kfid, agent_id, user_id, text, exc) ==
  send_text(agent_id, user_id, text, exc)

\* the channel choice of main.py:115-118 and 141-144
send_reply(open_kfid, agent_id, user_id, text, exc) ==
  IF open_kfid # NoVal
    THEN send_kf_message(open_kfid, user_id, text, exc)
    ELSE send_text(agent_id, user_id, text, exc)

\* ------------------------------------------------------------------ agent
\* the methods class DetailedTimingCallbackHandler defines
\* (agent_callback_handlers.py:64-85); on_chain_end .. get_summary are
\* module-level functions (lines 88-145, column 0), not attributes of it
DetailedTimingCallbackHandler == {"__init__", "on_chain_start"}

\* get_summary is not an attribute of the handler object
AttributeError == Exc("AttributeError", {})

\* what agent_executor.invoke does: returns a result with an output field,
\* returns a result without one, or raises
ExecutorOutcome(kind, exc) ==
  [kind |-> kind, output |-> IF kind = "output" THEN AgentAnswer ELSE NoVal,
   exc |-> exc]

ExecutorErrors ==
  {Exc("APITimeoutError", {"timeout"}), Exc("RateLimitError", {"rate"}),
   Exc("APIConnectionError", {"connection"}), Exc("ValueError", {})}

ExecutorOutcomes ==
  {ExecutorOutcome("output", NoExc), ExecutorOutcome("no_output", NoExc)}
    \cup {ExecutorOutcome("raise", e) : e \in ExecutorErrors}

\* the try block of invoke_agent, agent.py:119-162: the exception it ends
\* with (NoExc when it reaches the return)
invoke_agent_try(request_id, executor) ==
  IF executor.kind = "raise" THEN executor.exc
  ELSE IF request_id # NoVal
          /\ log_with_extra("info", {"request_id", "token_stats"})
    THEN LogKeyError
  ELSE IF "get_summary" \notin DetailedTimingCallbackHandler
    THEN AttributeError
  ELSE IF request_id # NoVal
          /\ log_with_extra("info",
               {"request_id", "agent_total_time", "llm_total_time",
                "tool_total_time", "actual_execution_time", "llm_call_count",
                "tool_call_count", "event"})
    THEN LogKeyError
  ELSE IF request_id # NoVal
          /\ log_with_extra("info",
               {"request_id", "execution_time", "output_length"})
    THEN LogKeyError
  ELSE NoExc

\* invoke_agent, agent.py:108-180: the returned text, or the exception that
\* leaves the function
invoke_agent(user_input, request_id, executor) ==
  LET tried == invoke_agent_try(request_id, executor)
      wrapped_exception == handle_exception(tried)
  IN  IF tried = NoExc
        THEN [value |-> IF executor.kind = "output" THEN executor.output
                        ELSE CannotAnswer,
              raised |-> NoExc]
      ELSE IF request_id # NoVal
              /\ log_exception({"request_id", "execution_time"})
        THEN [value |-> NoVal, raised |-> LogKeyError]
      ELSE IF wrapped_exception.type = "LLMException"
        THEN [value |-> wrapped_exception.user_message, raised |-> NoExc]
      ELSE [value |-> GenericApology, raised |-> NoExc]

\* ------------------------------------------------------------------ tools
\* the text a tool returns: which of its return statements produced it and
\* the part that varies (a user_message or the model's reply)
ToolText(kind, text) == [kind |-> kind, text |-> text]

\* the module-level clients of tools.py:17-34: a client object, or None
\* when the constructors raised
LlmClients == {NoVal, "ChatOpenAI"}

\* what requests.get / raise_for_status do in tools.py:55-56
DownloadOutcomes ==
  {NoExc, Exc("ConnectionError", {"connection"}), Exc("HTTPError", {}),
   Exc("ReadTimeout", {"timeout", "connection"})}

\* the subclasses of requests.exceptions.RequestException among them
RequestException == {"ConnectionError", "HTTPError", "ReadTimeout"}

\* the except blocks of get_media_content_from_url, tools.py:108-128:
\* exc is the exception caught, kind the return statement of the block
media_tool_except(exc, kind) ==
  LET wrapped_exception == handle_exception(exc)
  IN  IF log_with_extra("error",
                        {"tool_name", "execution_time", "success", "event"})
        THEN [value |-> NoVal, raised |-> LogKeyError]
      ELSE IF log_exception({})
        THEN [value |-> NoVal, raised |-> LogKeyError]
      ELSE [value |-> ToolText(kind, wrapped_exception.user_message),
            raised |-> NoExc]

\* get_media_content_from_url, tools.py:37-128: download is what the
\* download does, analysis what vision_llm.invoke does
get_media_content_from_url(vision_llm, download, analysis) ==
  IF vision_llm = NoVal
    THEN IF log_with_extra("error", {"tool_name"})
           THEN [value |-> NoVal, raised |-> LogKeyError]
           ELSE [value |-> ToolText("not_initialised", NoVal),
                 raised |-> NoExc]
  ELSE IF download # NoExc
    THEN IF download.type \in RequestException
           THEN media_tool_except(download, "download_failed")
           ELSE media_tool_except(download, "analysis_failed")
  ELSE IF analysis # NoExc
    THEN media_tool_except(analysis, "analysis_failed")
  ELSE IF log_with_extra("info",
            {"tool_name", "execution_time", "success", "result_length",
             "event"})
    THEN media_tool_except(LogKeyError, "analysis_failed")
  ELSE [value |-> ToolText("description", "what the picture shows"),
        raised |-> NoExc]

\* green_channel_goods and green_channel_categories, tools.py:169-196,
\* by stand-in names
green_channel_goods == {"cabbage", "carp"}

green_channel_categories == {"fish", "shrimp"}

\* what green_channel_llm.invoke does: a reply with a content, or raises
LlmReply(content, exc) == [content |-> content, exc |-> exc]

\* check_green_channel_status with the categorization asked for every
\* item, listed or not
check_green_channel_status_always(item_name, green_channel_llm, reply) ==
  IF green_channel_llm # NoVal
    THEN IF reply.exc # NoExc
           THEN [value |-> NoVal, calls |-> 1, raised |-> reply.exc]
           ELSE [value |-> IF item_name \in green_channel_goods THEN "True"
                           ELSE IF reply.content \in green_channel_categories
                             THEN "True"
                           ELSE "False",
                 calls |-> 1, raised |-> NoExc]
    ELSE [value |-> IF item_name \in green_channel_goods THEN "True"
                    ELSE "False",
          calls |-> 0, raised |-> NoExc]

\* check_green_channel_status, tools.py:198-221: the bool returned (by its
\* str), how often green_channel_llm.invoke was called, and the exception
\* that leaves the tool
check_green_channel_status(item_name, green_channel_llm, reply) ==
  LET is_on_list == item_name \in green_channel_goods
  IN  IF ~is_on_list /\ green_channel_llm # NoVal
        THEN IF reply.exc # NoExc
               THEN [value |-> NoVal, calls |-> 1, raised |-> reply.exc]
               ELSE [value |-> IF reply.content \in green_channel_categories
                                 THEN "True" ELSE "False",
                     calls |-> 1, raised |-> NoExc]
        ELSE [value |-> IF is_on_list THEN "True" ELSE "False",
              calls |-> 0, raised |-> NoExc]

\* agent_executor.invoke (agent.py:104-105, 125) when the model asks for one
\* tool: the executor is built without any handler for tool errors, so an
\* exception that leaves the tool leaves invoke; a returned value goes
\* back into the loop, which then ends like final
executor_with_tool(tool, final) ==
  IF tool.raised # NoExc THEN ExecutorOutcome("raise", tool.raised)
  ELSE final

\* ------------------------------------------------------ webhook responder
\* the value of request_id: str(uuid.uuid4()), main.py:174
RequestId == "uuid4"

NoTask == <<>>

\* the arguments of background_tasks.add_task, main.py:276-283
TaskArgs(user_input, user_id, open_kf_id) ==
  [user_input |-> user_input, user_id |-> user_id,
   agent_id |-> WECOM_AGENT_ID, open_kfid |-> open_kf_id,
   request_id |-> RequestId]

\* what one run of wechat_callback did: the HTTP status, the platform calls
\* it made before returning, its outbound sends, the tasks it submitted,
\* the error codes it reported, and whether an exception left the handler
\* (the framework then answers 500)
Response(status, calls, sends, submitted) ==
  [status |-> status, calls |-> calls, sends |-> sends,
   submitted |-> submitted, reported |-> <<>>, escaped |-> FALSE]

\* InternalError without error_reporter.report_error
InternalError_uncounted(calls, sends, exc) ==
  [status |-> 500, calls |-> calls, sends |-> sends, submitted |-> <<>>,
   reported |-> <<>>, escaped |-> log_exception({"request_id"})]

\* the except-Exception handler of wechat_callback, main.py:301-311
InternalError(calls, sends, exc) ==
  [status |-> 500, calls |-> calls, sends |-> sends, submitted |-> <<>>,
   reported |-> <<handle_exception(exc).error_code>>,
   escaped |-> log_exception({"request_id"})]

\* AckStatus with a queued task answered like the error path of
\* main.py:311
AckStatus_error == InternalError(<<>>, <<>>, LogKeyError).status

\* return Response(status_code=200) after the task is queued, main.py:292
AckStatus == 200

\* main.py:275-292: queue the task, log, answer.  The queued task runs
\* after whatever Response the handler returns; it is dropped when an
\* exception leaves the handler.
Enqueue(calls, user_input, user_id, open_kf_id) ==
  IF log_with_extra("info", {"user_id", "request_id", "response_time"})
    THEN [InternalError(calls, <<>>, LogKeyError) EXCEPT
            !.submitted = IF log_exception({"request_id"}) THEN <<>>
                          ELSE <<TaskArgs(user_input, user_id, open_kf_id)>>]
    ELSE Response(AckStatus, calls, <<>>,
                  <<TaskArgs(user_input, user_id, open_kf_id)>>)

\* EventBranch without the return of main.py:259: an ignored event falls
\* through to add_task
EventBranch_fallthrough(inp) ==
  LET synced == sync_kf_messages(inp.open_kf_id, inp.token, inp.sync_exc,
                                 inp.msg_list)
      calls == IF synced.called THEN <<"kf/sync_msg">> ELSE <<>>
      msg_list == synced.value
      last == msg_list[Len(msg_list)]
      extracted == extract_content(last, NoVal, inp.token_exc)
  IN  IF inp.token # NoVal /\ inp.open_kf_id # NoVal
        THEN IF synced.raised # NoExc
               THEN InternalError(calls, <<>>, synced.raised)
             ELSE IF msg_list = <<>>
               THEN InternalError(calls, <<>>, Exc("IndexError", {}))
             ELSE IF last.external_userid = NoVal
               THEN InternalError(calls, <<>>, Exc("KeyError", {}))
             ELSE IF extracted.raised # NoExc
               THEN InternalError(calls \o extracted.calls, <<>>,
                                  extracted.raised)
             ELSE Enqueue(calls \o extracted.calls, extracted.lines,
                          last.external_userid, inp.open_kf_id)
        ELSE Enqueue(<<>>, <<>>, inp.source, inp.open_kf_id)

\* EventBranch with the guard of main.py:243 testing the token only
EventBranch_tokenonly(inp) ==
  LET synced == sync_kf_messages(inp.open_kf_id, inp.token, inp.sync_exc,
                                 inp.msg_list)
      calls == IF synced.called THEN <<"kf/sync_msg">> ELSE <<>>
      msg_list == synced.value
      last == msg_list[Len(msg_list)]
      extracted == extract_content(last, NoVal, inp.token_exc)
  IN  IF inp.token # NoVal
        THEN IF synced.raised # NoExc
               THEN InternalError(calls, <<>>, synced.raised)
             ELSE IF msg_list = <<>>
               THEN InternalError(calls, <<>>, Exc("IndexError", {}))
             ELSE IF last.external_userid = NoVal
               THEN InternalError(calls, <<>>, Exc("KeyError", {}))
             ELSE IF extracted.raised # NoExc
               THEN InternalError(calls \o extracted.calls, <<>>,
                                  extracted.raised)
             ELSE Enqueue(calls \o extracted.calls, extracted.lines,
                          last.external_userid, inp.open_kf_id)
        ELSE Response(200, <<>>, <<>>, <<>>)

\* the event branch of wechat_callback, main.py:239-259
EventBranch(inp) ==
  LET synced == sync_kf_messages(inp.open_kf_id, inp.token, inp.sync_exc,
                                 inp.msg_list)
      calls == IF synced.called THEN <<"kf/sync_msg">> ELSE <<>>
      msg_list == synced.value
      last == msg_list[Len(msg_list)]
      extracted == extract_content(last, NoVal, inp.token_exc)
  IN  IF inp.token # NoVal /\ inp.open_kf_id # NoVal
        THEN IF synced.raised # NoExc
               THEN InternalError(calls, <<>>, synced.raised)
             ELSE IF msg_list = <<>>
               THEN InternalError(calls, <<>>, Exc("IndexError", {}))
             ELSE IF last.external_userid = NoVal
               THEN InternalError(calls, <<>>, Exc("KeyError", {}))
             ELSE IF extracted.raised # NoExc
               THEN InternalError(calls \o extracted.calls, <<>>,
                                  extracted.raised)
             ELSE Enqueue(calls \o extracted.calls, extracted.lines,
                          last.external_userid, inp.open_kf_id)
        ELSE Response(200, <<>>, <<>>, <<>>)

\* UnsupportedBranch with a failed send swallowed: always 200
UnsupportedBranch_swallow(inp) ==
  LET sent == send_text(WECOM_AGENT_ID, inp.source, UnsupportedApology,
                        inp.send_exc)
  IN  IF log_with_extra("warning",
           {"user_id", "request_id", "message_type"})
        THEN InternalError(<<>>, <<>>, LogKeyError)
      ELSE Response(200, <<"message/send">>, sent.calls, <<>>)

\* the else branch of wechat_callback, main.py:264-273: a message kind that
\* is not handled is answered directly
UnsupportedBranch(inp) ==
  LET sent == send_text(WECOM_AGENT_ID, inp.source, UnsupportedApology,
                        inp.send_exc)
  IN  IF log_with_extra("warning",
           {"user_id", "request_id", "message_type"})
        THEN InternalError(<<>>, <<>>, LogKeyError)
      ELSE IF sent.raised # NoExc
        THEN InternalError(<<"message/send">>, sent.calls, sent.raised)
      ELSE Response(200, <<"message/send">>, sent.calls, <<>>)

\* SignatureRejected with the signature failure caught by the generic
\* handler of main.py:301-311 instead
SignatureRejected_generic ==
  InternalError(<<>>, <<>>, Exc("InvalidSignatureException", {"signature"}))

\* the except-InvalidSignatureException handler of wechat_callback,
\* main.py:294-300
SignatureRejected ==
  IF log_with_extra("warning", {"request_id", "error"})
    THEN [Response(500, <<>>, <<>>, <<>>) EXCEPT !.escaped = TRUE]
    ELSE Response(401, <<>>, <<>>, <<>>)

\* the POST branch of wechat_callback, main.py:208-311
wechat_callback_post(inp) ==
  LET user_id == inp.source
      media == get_media_url("media1", inp.token_exc)
  IN  IF ~inp.sig_ok THEN SignatureRejected
      ELSE IF inp.decode = "error"
        THEN InternalError(<<>>, <<>>, Exc("DecodeError", {}))
      ELSE IF inp.decode = "none" THEN Response(400, <<>>, <<>>, <<>>)
      ELSE IF log_with_extra("info",
                {"user_id", "event_type", "details", "event"})
        THEN InternalError(<<>>, <<>>, LogKeyError)
      ELSE IF inp.msgtype = "event" THEN EventBranch(inp)
      ELSE IF inp.msgtype = "text"
        THEN Enqueue(<<>>, <<TextLine(user_id, "content")>>, user_id,
                     inp.open_kf_id)
      ELSE IF inp.msgtype \in MediaTypes
        THEN IF media.raised # NoExc
               THEN InternalError(media.calls, <<>>, media.raised)
               ELSE Enqueue(media.calls,
                            <<MediaLine(user_id, inp.msgtype, media.value)>>,
                            user_id, inp.open_kf_id)
      ELSE UnsupportedBranch(inp)

\* the GET branch of wechat_callback, main.py:188-206: check is what
\* crypto.check_signature does, "ok" (returns the echo plaintext),
\* "invalid_signature" (raises InvalidSignatureException) or "error" (raises
\* anything else, which no handler of the branch catches)
wechat_callback_get(check) ==
  IF check = "ok" THEN Response(200, <<>>, <<>>, <<>>)
  ELSE IF check = "invalid_signature" THEN Response(401, <<>>, <<>>, <<>>)
  ELSE [Response(500, <<>>, <<>>, <<>>) EXCEPT !.escaped = TRUE]

\* -------------------------------------------------------- background task
\* the try block of process_messages, main.py:95-122
process_messages_try(task, executor, send_exc) ==
  LET agent == invoke_agent(task.user_input, task.request_id, executor)
      sent == send_reply(task.open_kfid, task.agent_id, task.user_id,
                         agent.value, send_exc)
      Ended(agent_called, sends, success, raised) ==
        [agent_called |-> agent_called, sends |-> sends,
         success |-> success, raised |-> raised]
  IN  IF log_with_extra("info",
           {"user_id", "message_type", "request_id", "event"})
        THEN Ended(FALSE, <<>>, FALSE, LogKeyError)
      ELSE IF log_with_extra("debug",
                {"user_id", "request_id", "input_length"})
        THEN Ended(FALSE, <<>>, FALSE, LogKeyError)
      ELSE IF agent.raised # NoExc
        THEN Ended(TRUE, <<>>, FALSE, agent.raised)
      ELSE IF log_with_extra("debug",
                {"user_id", "request_id", "response_length"})
        THEN Ended(TRUE, <<>>, FALSE, LogKeyError)
      ELSE IF sent.raised # NoExc
        THEN Ended(TRUE, sent.calls, FALSE, sent.raised)
      ELSE IF log_request_end(TRUE)
        THEN Ended(TRUE, sent.calls, TRUE, LogKeyError)
      ELSE Ended(TRUE, sent.calls, TRUE, NoExc)

\* the except block of process_messages, main.py:124-154, entered with the
\* exception exc: its sends, whether report_error ran, and the exception
\* that leaves it
process_messages_except(task, exc, err_send_exc) ==
  LET wrapped_exception == handle_exception(exc)
      sent == send_reply(task.open_kfid, task.agent_id, task.user_id,
                         wrapped_exception.user_message, err_send_exc)
  IN  IF log_exception({"user_id", "request_id", "execution_time"})
        THEN [sends |-> <<>>, reported |-> <<>>, escaped |-> LogKeyError]
      ELSE IF sent.raised # NoExc
              /\ log_with_extra("error",
                   {"user_id", "request_id", "send_error"})
        THEN [sends |-> sent.calls,
              reported |-> <<wrapped_exception.error_code>>,
              escaped |-> LogKeyError]
      ELSE [sends |-> sent.calls,
            reported |-> <<wrapped_exception.error_code>>,
            escaped |-> IF log_request_end(FALSE) THEN LogKeyError
                        ELSE NoExc]

\* process_messages, main.py:85-160, after increment_active_requests: what
\* the task did by the time the finally block has run
process_messages(task, executor, send_exc, err_send_exc) ==
  LET tried == process_messages_try(task, executor, send_exc)
      handled == process_messages_except(task, tried.raised, err_send_exc)
  IN  IF tried.raised = NoExc
        THEN [agent_called |-> tried.agent_called, sends |-> tried.sends,
              success |-> tried.success, raised |-> FALSE,
              reported |-> <<>>, escaped |-> FALSE]
        ELSE [agent_called |-> tried.agent_called,
              sends |-> tried.sends \o handled.sends,
              success |-> tried.success, raised |-> TRUE,
              reported |-> handled.reported,
              escaped |-> handled.escaped # NoExc]

\* PerformanceMonitor.increment_active_requests, monitoring.py:93-97
increment_active_requests(n) == n + 1

\* decrement_active_requests without its max(0, ...)
decrement_active_requests_unclamped(n) == n - 1

\* decrement_active_requests leaving the counter as it is
decrement_active_requests_never(n) == n

\* PerformanceMonitor.decrement_active_requests, monitoring.py:99-103
decrement_active_requests(n) == IF n - 1 > 0 THEN n - 1 ELSE 0

\* the longest duration a request is given here
MaxTime == 2

\* float('inf'), monitoring.py:46: larger than every duration
Infinity == MaxTime + 1

\* a float kept exactly, as numerator and denominator
Float(num, den) == <<num, den>>

\* PerformanceMonitor.request_stats as __init__ leaves it,
\* monitoring.py:41-48
InitialRequestStats ==
  [total_requests |-> 0, successful_requests |-> 0, failed_requests |-> 0,
   avg_response_time |-> Float(0, 1), max_response_time |-> 0,
   min_response_time |-> Infinity]

\* record_request counting every request as successful
record_request_all_successful(stats, success, response_time) ==
  LET total_requests == stats.total_requests + 1
      avg == stats.avg_response_time
      total_time == (avg[1] * (total_requests - 1)) \div avg[2]
                      + response_time
  IN  [stats EXCEPT
         !.total_requests = total_requests,
         !.successful_requests = @ + 1,
         !.avg_response_time = Float(total_time, total_requests),
         !.max_response_time =
           IF response_time > @ THEN response_time ELSE @,
         !.min_response_time =
           IF response_time < @ THEN response_time ELSE @]

\* the locked block of PerformanceMonitor.record_request,
\* monitoring.py:74-89
record_request(stats, success, response_time) ==
  LET total_requests == stats.total_requests + 1
      avg == stats.avg_response_time
      total_time == (avg[1] * (total_requests - 1)) \div avg[2]
                      + response_time
  IN  [total_requests |-> total_requests,
       successful_requests |->
         stats.successful_requests + (IF success THEN 1 ELSE 0),
       failed_requests |->
         stats.failed_requests + (IF success THEN 0 ELSE 1),
       avg_response_time |-> Float(total_time, total_requests),
       max_response_time |->
         IF response_time > stats.max_response_time THEN response_time
         ELSE stats.max_response_time,
       min_response_time |->
         IF response_time < stats.min_response_time THEN response_time
         ELSE stats.min_response_time]

\* PerformanceMonitor.get_request_stats, monitoring.py:105-118, without the
\* uptime
get_request_stats(stats, active) ==
  [total_requests |-> stats.total_requests,
   successful_requests |-> stats.successful_requests,
   failed_requests |-> stats.failed_requests,
   avg_response_time |-> stats.avg_response_time,
   max_response_time |-> stats.max_response_time,
   min_response_time |-> stats.min_response_time,
   active_requests |-> active,
   success_rate |->
     IF stats.total_requests > 0
       THEN Float(stats.successful_requests, stats.total_requests)
       ELSE Float(0, 1)]

\* str(success), monitoring.py:91
Str(b) == IF b THEN "True" ELSE "False"

\* PerformanceMetric, monitoring.py:16-22; the timestamp is left out
PerformanceMetric(metric_name, value, tags) ==
  [metric_name |-> metric_name, value |-> value, tags |-> tags]

\* deque(maxlen=1000), monitoring.py:40
maxlen == 1000

\* a deque that, when full, makes room by dropping its newest record
deque_append_drop_newest(buffer, metric) ==
  IF Len(buffer) >= maxlen
    THEN SubSeq(buffer, 1, Len(buffer) - 1) \o <<metric>>
  ELSE Append(buffer, metric)

\* deque.append on a deque of that maxlen, monitoring.py:68
deque_append(buffer, metric) ==
  IF Len(buffer) >= maxlen THEN Tail(buffer) \o <<metric>>
  ELSE Append(buffer, metric)

\* PerformanceMonitor.record_metric, monitoring.py:58-70, on the metrics
\* dict m (a name that was never recorded has no entry); the debug line of
\* monitoring.py:70 makes no record at LoggerLevel
record_metric(m, name, value, tags) ==
  IF name \in DOMAIN m
    THEN [m EXCEPT ![name] =
            deque_append(@, PerformanceMetric(name, value, tags))]
    ELSE m @@ (name :> <<PerformanceMetric(name, value, tags)>>)

\* ------------------------------------------------------------------ state
VARIABLES
  requests,         \* the webhook requests answered so far, in order
  tasks,            \* the background tasks submitted so far, in order
  active_requests,  \* performance_monitor.active_requests
  request_stats,    \* performance_monitor.request_stats
  error_counts,     \* error_reporter.error_counts
  calc,             \* the latest application of a function to chosen
                    \* arguments: its name, arguments and result
  metrics,          \* performance_monitor.metrics
  lock,             \* the thread holding performance_monitor._lock, or 0
  threads,          \* the local state of each thread that calls into a
                    \* shared object
  token_usage,      \* the counters of token_usage_callback_handler
  health_checker    \* health_checker: its checks and last_results

\* the state the webhook and its tasks work on
webhook_vars ==
  <<requests, tasks, active_requests, request_stats, error_counts, metrics>>

\* the state only the component specifications below work on
component_vars == <<lock, threads, token_usage, health_checker>>

vars == <<webhook_vars, calc, component_vars>>

\* ----------------------------------------------------------------- inputs
\* entries the platform may return from kf/sync_msg
MergedItems ==
  <<[sender_name |-> "alice", msg |-> KfMsg("text", NoVal, NoVal, <<>>)],
    [sender_name |-> "bob", msg |-> KfMsg("image", NoVal, NoVal, <<>>)]>>

KfMessages ==
  {KfMsg("text", "u2", NoVal, <<>>),
   KfMsg("image", "u2", NoVal, <<>>),
   KfMsg("link", "u2", NoVal, <<>>),
   KfMsg("merged_msg", "u2", NoVal, <<>>),
   KfMsg("merged_msg", "u2", NoVal, MergedItems),
   KfMsg("event", "u3", "enter_session", <<>>),
   KfMsg("event", NoVal, "enter_session", <<>>),
   KfMsg("event", "u3", "msg_send_fail", <<>>)}

RECURSIVE SeqsUpTo(_, _)
SeqsUpTo(S, n) ==
  IF n = 0 THEN {<<>>}
  ELSE LET shorter == SeqsUpTo(S, n - 1)
       IN  shorter \cup {Append(q, x) : q \in shorter, x \in S}

PlatformMsgLists == SeqsUpTo(KfMessages, MaxMsgs)

ApiOutcomes == {NoExc, ApiError}

\* one POST as the responder sees it: signature verdict, decode/parse
\* outcome, the parsed message's fields, and the outcomes of the platform
\* calls the responder may make
PostInput(sig, dec, msgtype, token, kfid, sync_exc, msgs, tok_exc, snd_exc) ==
  [sig_ok |-> sig, decode |-> dec, msgtype |-> msgtype,
   source |-> "u1", token |-> token, open_kf_id |-> kfid,
   sync_exc |-> sync_exc, msg_list |-> msgs, token_exc |-> tok_exc,
   send_exc |-> snd_exc]

\* open_kf_id and token are fields of the kf_msg_or_event event only
\* (wecom_handler.py:93-102); other messages lack them
PostInputs ==
  {PostInput(FALSE, "ok", NoVal, NoVal, NoVal, NoExc, <<>>, NoExc, NoExc)}
  \cup {PostInput(TRUE, d, NoVal, NoVal, NoVal, NoExc, <<>>, NoExc, NoExc) :
          d \in {"error", "none"}}
  \cup {PostInput(TRUE, "ok", "event", t, k, NoExc, <<>>, NoExc, NoExc) :
          t \in {NoVal, "tok"}, k \in {NoVal, "kf1"}}
  \cup {PostInput(TRUE, "ok", "event", "tok", "kf1", ApiError, <<>>, NoExc,
                  NoExc)}
  \cup {PostInput(TRUE, "ok", "event", "tok", "kf1", NoExc, l, e, NoExc) :
          l \in PlatformMsgLists, e \in ApiOutcomes}
  \cup {PostInput(TRUE, "ok", "text", NoVal, NoVal, NoExc, <<>>, NoExc,
                  NoExc)}
  \cup {PostInput(TRUE, "ok", m, NoVal, NoVal, NoExc, <<>>, e, NoExc) :
          m \in {"image"}, e \in ApiOutcomes}
  \cup {PostInput(TRUE, "ok", "location", NoVal, NoVal, NoExc, <<>>, NoExc,
                  e) : e \in ApiOutcomes}

\* ---------------------------------------------------------------- actions
InitObjects ==
  /\ requests = <<>>
  /\ tasks = <<>>
  /\ active_requests = 0
  /\ request_stats = InitialRequestStats
  /\ error_counts = <<>>
  /\ calc = [op |-> "none"]
  /\ lock = 0
  /\ token_usage = [prompt_tokens |-> 0, completion_tokens |-> 0,
                    total_tokens |-> 0]
  /\ health_checker = [checks |-> {"system_resources", "request_rate"},
                       last_results |-> <<>>]

InitShared == InitObjects /\ metrics = <<>>

Init == InitShared /\ threads = <<>>

RECURSIVE ReportAll(_, _)
ReportAll(counts, codes) ==
  IF codes = <<>> THEN counts
  ELSE ReportAll(report_error(counts, [error_code |-> Head(codes)]),
                 Tail(codes))

\* the record kept of an answered request
Answered(method, inp, resp) ==
  [method |-> method, sig_ok |-> inp.sig_ok, decode |-> inp.decode,
   msgtype |-> inp.msgtype, token |-> inp.token,
   open_kf_id |-> inp.open_kf_id,
   latest |-> IF inp.msg_list = <<>> THEN NoVal
              ELSE inp.msg_list[Len(inp.msg_list)].msgtype,
   latest_event |-> IF inp.msg_list = <<>> THEN NoVal
                    ELSE inp.msg_list[Len(inp.msg_list)].event_type,
   status |-> resp.status, calls |-> resp.calls, sends |-> resp.sends,
   submitted |-> Len(resp.submitted), escaped |-> resp.escaped]

\* the record kept of a submitted task
Submitted(req, args) ==
  [req |-> req, args |-> args, state |-> "queued", executor |-> NoVal,
   agent_called |-> FALSE, sends |-> <<>>, success |-> FALSE,
   raised |-> FALSE, escaped |-> FALSE]

Answer(method, inp, resp) ==
  /\ Len(requests) < MaxRequests
  /\ requests' = Append(requests, Answered(method, inp, resp))
  /\ tasks' = tasks \o [k \in 1..Len(resp.submitted) |->
                          Submitted(Len(requests) + 1, resp.submitted[k])]
  /\ error_counts' = ReportAll(error_counts, resp.reported)
  /\ UNCHANGED <<active_requests, request_stats, calc, metrics,
                 component_vars>>

\* a POST to /wechat-agent-callback
Post == \E inp \in PostInputs : Answer("POST", inp, wechat_callback_post(inp))

\* a GET to /wechat-agent-callback
Get ==
  \E check \in {"ok", "invalid_signature", "error"} :
     Answer("GET",
            PostInput(check # "invalid_signature",
                      IF check = "error" THEN "error" ELSE NoVal, NoVal,
                      NoVal, NoVal, NoExc, <<>>, NoExc, NoExc),
            wechat_callback_get(check))

\* the runner starts a queued task: main.py:89-93
Start ==
  \E i \in 1..Len(tasks) :
     /\ tasks[i].state = "queued"
     /\ tasks' = [tasks EXCEPT ![i].state = "running"]
     /\ active_requests' = increment_active_requests(active_requests)
     /\ metrics' = record_metric(metrics, "active_requests",
                                 active_requests', {})
     /\ UNCHANGED <<requests, request_stats, error_counts, calc,
                    component_vars>>

\* the ways a task with these arguments can end: for every way
\* agent_executor.invoke and the two sends can go, how the executor ended
\* and what process_messages did
TaskEndings(args) ==
  {[executor |-> executor.kind,
    done |-> process_messages(args, executor, send_exc, err_send_exc)] :
     executor \in ExecutorOutcomes, send_exc \in ApiOutcomes,
     err_send_exc \in ApiOutcomes}

\* the arguments a task can be submitted with, main.py:276-283
SubmittedArgs ==
  UNION {{wechat_callback_post(inp).submitted[k] :
            k \in 1..Len(wechat_callback_post(inp).submitted)} :
           inp \in PostInputs}

\* the endings of every task that can be submitted
TaskEndingsOf == [args \in SubmittedArgs |-> TaskEndings(args)]

\* a started task runs to its end: main.py:95-160
Run ==
  \E i \in 1..Len(tasks) :
     /\ tasks[i].state = "running"
     /\ \E ending \in TaskEndingsOf[tasks[i].args] :
          LET done == ending.done
              execution_time == 1
          IN  /\ tasks' = [tasks EXCEPT ![i] =
                             [req |-> @.req, args |-> @.args, state |-> "done",
                              executor |-> ending.executor,
                              agent_called |-> done.agent_called,
                              sends |-> done.sends, success |-> done.success,
                              raised |-> done.raised, escaped |-> done.escaped]]
              /\ error_counts' = ReportAll(error_counts, done.reported)
              /\ active_requests' = decrement_active_requests(active_requests)
              /\ request_stats' = record_request(request_stats, done.success,
                                                 execution_time)
              /\ metrics' =
                   record_metric(record_metric(metrics, "active_requests",
                                               active_requests', {}),
                                 "request_response_time", execution_time,
                                 {<<"success", Str(done.success)>>})
              /\ UNCHANGED <<requests, calc, component_vars>>

Next == Post \/ Get \/ Start \/ Run

Spec == Init /\ [][Next]_vars

\* ----------------------------------------------------------- properties
SupportedTypes == {"event", "text"} \cup MediaTypes

PostRequests == {k \in 1..Len(requests) : requests[k].method = "POST"}

DoneTasks == {i \in 1..Len(tasks) : tasks[i].state = "done"}

TasksOf(k) == {i \in 1..Len(tasks) : tasks[i].req = k}

Deliveries(i) == {n \in 1..Len(tasks[i].sends) : tasks[i].sends[n].ok}

\* C1: by the time process_messages ends, exactly one message (the agent
\* reply or one error apology) has been delivered to the user.
C1_ExactlyOneDelivered ==
  \A i \in DoneTasks : Cardinality(Deliveries(i)) = 1

\* C2: when the executor finishes without raising, the text handed to the
\* outbound sender is the executor's final answer, or the fallback when the
\* result has no output field, and not an apology.
C2_AnswerHandedToSender ==
  \A i \in DoneTasks :
     tasks[i].executor \in {"output", "no_output"} =>
       /\ tasks[i].sends # <<>>
       /\ tasks[i].sends[1].text =
            (IF tasks[i].executor = "output" THEN AgentAnswer
             ELSE CannotAnswer)

\* C3: when a step of the task raises, the error is caught at the task
\* boundary and an apology is passed to the outbound sender for the same
\* recipient and channel; no exception escapes without a send.
C3_ErrorBecomesApology ==
  \A i \in DoneTasks :
     tasks[i].raised =>
       /\ ~tasks[i].escaped
       /\ \E n \in 1..Len(tasks[i].sends) :
             /\ tasks[i].sends[n].text \in ApologyTexts
             /\ tasks[i].sends[n].touser = tasks[i].args.user_id
             /\ tasks[i].sends[n].open_kfid = tasks[i].args.open_kfid

\* C4: each background task makes exactly one outbound send call, whether
\* it succeeds or fails.
C4_ExactlyOneSendCall ==
  \A i \in DoneTasks : Len(tasks[i].sends) = 1

\* C5: the request that submitted a task is answered 200 when the task is
\* queued, before the task starts, whatever the task does later.
C5_AckBeforeTask ==
  \A i \in 1..Len(tasks) :
     /\ tasks[i].req \in PostRequests
     /\ requests[tasks[i].req].status = 200

C5_Witness ==
  \E i \in DoneTasks, j \in 1..Len(tasks) :
     /\ tasks[i].agent_called
     /\ ~tasks[i].success
     /\ requests[tasks[i].req].status = 200
     /\ tasks[j].state = "queued"
     /\ requests[tasks[j].req].status = 200

\* C6: between receiving a POST and answering it the responder makes no
\* platform call (access-token resolution, history sync, outbound send).
C6_NoNetworkInResponder ==
  \A k \in PostRequests : requests[k].calls = <<>>

\* C7: a POST accepted into the pipeline (text, media, or event with token
\* and session id, answered 200) submits exactly one task; no request
\* submits more than one; requests answered 401, 400 or 500, ignored
\* events and unsupported kinds submit none.
C7_OneTaskPerAcceptedPost ==
  \A k \in 1..Len(requests) :
     LET r == requests[k]
         accepted ==
           /\ r.method = "POST"
           /\ r.status = 200
           /\ \/ r.msgtype = "text"
              \/ r.msgtype \in MediaTypes
              \/ r.msgtype = "event" /\ r.token # NoVal
                 /\ r.open_kf_id # NoVal
     IN  /\ Cardinality(TasksOf(k)) = r.submitted
         /\ r.submitted <= 1
         /\ accepted => r.submitted = 1
         /\ ~accepted => r.submitted = 0

C7_Witness ==
  \E k \in PostRequests, m \in PostRequests :
     /\ requests[k].msgtype = "event"
     /\ requests[k].status = 200
     /\ Cardinality(TasksOf(k)) = 1
     /\ requests[m].msgtype = "event"
     /\ requests[m].token = NoVal
     /\ Cardinality(TasksOf(m)) = 0

\* C8: a POST event without a session token, or without a session id,
\* creates no task, makes no outbound call and no history sync, and is
\* answered 200.
C8_UntokenedEventIgnored ==
  \A k \in PostRequests :
     LET r == requests[k]
     IN  (r.msgtype = "event" /\ (r.token = NoVal \/ r.open_kf_id = NoVal))
           => /\ r.status = 200
              /\ r.submitted = 0
              /\ TasksOf(k) = {}
              /\ r.sends = <<>>
              /\ r.calls = <<>>

C8_Witness ==
  \E k \in PostRequests :
     /\ requests[k].msgtype = "event"
     /\ requests[k].token # NoVal
     /\ requests[k].open_kf_id = NoVal
     /\ requests[k].status = 200

\* C9: a tokened event whose latest synced message yields no context line
\* submits no task: no task runs on an empty context.
C9_NoEmptyContextTask ==
  \A i \in 1..Len(tasks) : tasks[i].args.user_input # <<>>

ReplyTexts == {AgentAnswer, CannotAnswer}

\* the send of a task queued for an event that carried open_kf_id:
\* main.py:276-283 (open_kf_id or ""), then main.py:114-118 or 139-144
ApplySend ==
  /\ calc.op = "none"
  /\ \E open_kf_id \in {NoVal, "kf1"}, text \in ReplyTexts \cup ApologyTexts,
     exc \in ApiOutcomes :
     LET task == TaskArgs(<<TextLine("u1", "content")>>, "u1", open_kf_id)
         sent == send_reply(task.open_kfid, task.agent_id, task.user_id,
                            text, exc)
     IN  /\ calc' = [kind |-> IF text \in ReplyTexts THEN "agent_reply"
                               ELSE "error_apology",
                      op |-> "send_reply", open_kf_id |-> open_kf_id,
                      sends |-> sent.calls, text |-> text]
         /\ UNCHANGED <<webhook_vars, component_vars>>

\* the items of merged messages, main.py:80-82: each item has a sender_name
\* and a msg_content holding a text, a media message, a message of a kind
\* extract_content skips, or another merged message.  Every forest is
\* built together with the lines its items stand for, read left to right
\* and depth first.
MaxItems == 2

MaxDepth == 2

LeafItems ==
  {[expect |-> <<TextLine("s1", "c1")>>,
    item |-> [msg |-> [KfMsg("text", NoVal, NoVal, <<>>)
                         EXCEPT !.content = "c1"],
              sender_name |-> "s1"]],
   [expect |-> <<MediaLine("s2", "image", "media2")>>,
    item |-> [msg |-> [KfMsg("image", NoVal, NoVal, <<>>)
                         EXCEPT !.media_id = "media2"],
              sender_name |-> "s2"]],
   [expect |-> <<>>,
    item |-> [msg |-> KfMsg("link", NoVal, NoVal, <<>>),
              sender_name |-> "s3"]]}

RECURSIVE ItemSeqs(_, _)
ItemSeqs(children, n) ==
  IF n = 0 THEN {[expect |-> <<>>, items |-> <<>>]}
  ELSE LET shorter == ItemSeqs(children, n - 1)
       IN  shorter
             \cup {[expect |-> f.expect \o c.expect,
                    items |-> Append(f.items, c.item)] :
                     f \in shorter, c \in children}

RECURSIVE MergedForests(_)
MergedForests(depth) ==
  IF depth = 0 THEN ItemSeqs(LeafItems, MaxItems)
  ELSE ItemSeqs(LeafItems
                  \cup {[expect |-> f.expect,
                         item |-> [msg |-> KfMsg("merged_msg", NoVal, NoVal,
                                                 f.items),
                                   sender_name |-> "s4"]] :
                          f \in MergedForests(depth - 1)},
                MaxItems)

\* lines already in output_contents when extract_content is called
ExistingLines == {<<>>, <<TextLine("u0", "earlier")>>}

\* extract_content on a merged message, main.py:80-82
ApplyExtract ==
  /\ calc.op = "none"
  /\ \E f \in MergedForests(MaxDepth - 1), existing \in ExistingLines,
     token_exc \in ApiOutcomes :
     LET out == extract_content(KfMsg("merged_msg", "u2", NoVal, f.items),
                                NoVal, token_exc)
     IN  /\ calc' = [existing |-> existing, expect |-> f.expect,
                      items |-> f.items, op |-> "extract_content",
                      output_contents |-> existing \o out.lines,
                      raised |-> out.raised]
         /\ UNCHANGED <<webhook_vars, component_vars>>

\* the agent asks for get_media_content_from_url once (tools.py:37-128)
\* inside invoke_agent (agent.py:108-180)
ApplyMediaTool ==
  /\ calc.op = "none"
  /\ \E vision_llm \in LlmClients, download \in DownloadOutcomes,
        analysis \in {NoExc} \cup ExecutorErrors, final \in ExecutorOutcomes :
        LET tool == get_media_content_from_url(vision_llm, download,
                                               analysis)
            executor == executor_with_tool(tool, final)
        IN  /\ calc' = [agent |-> invoke_agent(<<>>, RequestId, executor),
                        analysis |-> analysis, download |-> download,
                        executor |-> executor,
                        failed |-> vision_llm # NoVal
                                     /\ (download # NoExc
                                           \/ analysis # NoExc),
                        final |-> final,
                        op |-> "get_media_content_from_url",
                        tool |-> tool, vision_llm |-> vision_llm]
            /\ UNCHANGED <<webhook_vars, component_vars>>

\* item names asked about and replies of the categorization model
ItemNames == {"cabbage", "carp", "catfish", "fish", "bricks"}

LlmReplies ==
  {LlmReply(c, NoExc) : c \in {"fish", "shrimp", "unknown", "fish, fresh"}}
    \cup {LlmReply(NoVal, e) : e \in ExecutorErrors}

\* the agent asks for check_green_channel_status once (tools.py:198-221)
\* inside invoke_agent (agent.py:108-180)
ApplyGreenChannel ==
  /\ calc.op = "none"
  /\ \E item_name \in ItemNames, green_channel_llm \in LlmClients,
        reply \in LlmReplies, final \in ExecutorOutcomes :
        LET tool == check_green_channel_status(item_name, green_channel_llm,
                                               reply)
            executor == executor_with_tool(tool, final)
        IN  /\ calc' = [agent |-> invoke_agent(<<>>, RequestId, executor),
                        executor |-> executor,
                        failed |-> tool.calls = 1 /\ reply.exc # NoExc,
                        final |-> final,
                        green_channel_llm |-> green_channel_llm,
                        item_name |-> item_name,
                        op |-> "check_green_channel_status",
                        reply |-> reply, tool |-> tool]
            /\ UNCHANGED <<webhook_vars, component_vars>>

\* one task from invoke_agent to the sender, main.py:85-160, for each way
\* agent_executor.invoke can end
ApplyAgent ==
  /\ calc.op = "none"
  /\ \E executor \in ExecutorOutcomes, open_kf_id \in {NoVal, "kf1"},
        send_exc \in ApiOutcomes, err_send_exc \in ApiOutcomes :
        LET task == TaskArgs(<<TextLine("u1", "content")>>, "u1", open_kf_id)
        IN  /\ calc' = [agent |-> invoke_agent(task.user_input,
                                               task.request_id, executor),
                        done |-> process_messages(task, executor, send_exc,
                                                  err_send_exc),
                        executor |-> executor, op |-> "invoke_agent",
                        task |-> task]
            /\ UNCHANGED <<webhook_vars, component_vars>>

\* the direct answer to a message of an unsupported kind, main.py:264-273
ApplyUnsupported ==
  /\ calc.op = "none"
  /\ \E inp \in PostInputs :
     /\ inp.sig_ok /\ inp.decode = "ok"
     /\ inp.msgtype \notin SupportedTypes
     /\ calc' = [kind |-> "unsupported_apology", op |-> "send_reply",
                 open_kf_id |-> inp.open_kf_id,
                 sends |-> UnsupportedBranch(inp).sends,
                 text |-> UnsupportedApology]
     /\ UNCHANGED <<webhook_vars, component_vars>>

\* C11: every outbound send (agent reply, error apology, unsupported-kind
\* apology) goes over the session-scoped API exactly when the originating
\* event carried open_kf_id, whatever the text or kind.
C11_ChannelBySessionId ==
  calc.op = "send_reply"
    => /\ Len(calc.sends) = 1
       /\ calc.sends[1].text = calc.text
       /\ (calc.sends[1].api = "kf/send_msg") <=> (calc.open_kf_id # NoVal)
       /\ (calc.sends[1].api = "message/send") <=> (calc.open_kf_id = NoVal)
       /\ calc.sends[1].open_kfid = calc.open_kf_id

C11_Witness ==
  /\ calc.op = "send_reply"
  /\ calc.kind = "error_apology"
  /\ calc.open_kf_id = "kf1"
  /\ Len(calc.sends) = 1
  /\ calc.sends[1].api = "kf/send_msg"

\* C12: a POST whose signature check fails is answered 401 and the step
\* that answers it submits no task, makes no outbound call and no history
\* sync, and leaves the request metrics (and the error counts) unchanged.
C12_BadSignatureRejected ==
  [][LET k == Len(requests')
     IN  (/\ k = Len(requests) + 1
          /\ requests'[k].method = "POST"
          /\ ~requests'[k].sig_ok)
           => /\ requests'[k].status = 401
              /\ ~requests'[k].escaped
              /\ requests'[k].calls = <<>>
              /\ requests'[k].sends = <<>>
              /\ requests'[k].submitted = 0
              /\ tasks' = tasks
              /\ request_stats' = request_stats
              /\ active_requests' = active_requests
              /\ error_counts' = error_counts]_vars

C12_Witness ==
  \E k \in PostRequests :
     /\ ~requests[k].sig_ok
     /\ requests[k].status = 401
     /\ \E j \in 1..Len(tasks) : tasks[j].req < k /\ tasks[j].state = "running"

\* C13: a correctly signed POST whose body cannot be decoded or parsed
\* (the decode raises, or the parse yields no message) is answered 400 and
\* submits no task.
C13_UndecodableAnswered400 ==
  \A k \in PostRequests :
     (requests[k].sig_ok /\ requests[k].decode \in {"error", "none"})
       => /\ requests[k].status = 400
          /\ requests[k].submitted = 0
          /\ TasksOf(k) = {}

\* C15: for every merged message, nested ones included, extract_content
\* appends the lines of the children after the lines already there, depth
\* first and left to right, and every text or media line names the
\* sender_name of its own item; when fetching a media URL raises, what was
\* appended up to then is the beginning of that order.
C15_MergedDepthFirst ==
  calc.op = "extract_content"
    => LET all == calc.existing \o calc.expect
           out == calc.output_contents
       IN  /\ calc.raised = NoExc => out = all
           /\ Len(out) <= Len(all)
           /\ out = SubSeq(all, 1, Len(out))
           /\ Len(out) >= Len(calc.existing)
           /\ \A k \in 1..Len(out) : out[k].sender # "s4"

C15_Witness ==
  /\ calc.op = "extract_content"
  /\ calc.raised = NoExc
  /\ calc.existing # <<>>
  /\ Len(calc.items) = 2
  /\ calc.items[1].msg.msgtype = "merged_msg"
  /\ Len(calc.items[1].msg.items) = 2
  /\ calc.items[2].msg.msgtype = "text"
  /\ calc.output_contents
       = calc.existing \o <<MediaLine("s2", "image", "media2"),
                            TextLine("s1", "c1"), TextLine("s1", "c1")>>

\* C16: an error inside a registered tool (a failed download or analysis in
\* the vision tool, a failing categorization call in the eligibility
\* lookup) comes back to the reasoning loop as the tool's output: the tool
\* returns, agent_executor.invoke does not raise because of it, and
\* invoke_agent is not aborted.
C16_ToolErrorIsToolOutput ==
  (calc.op \in {"get_media_content_from_url", "check_green_channel_status"}
     /\ calc.failed /\ calc.final.kind = "output")
    => /\ calc.tool.raised = NoExc
       /\ calc.executor.kind = "output"
       /\ calc.agent.raised = NoExc

\* C17: get_media_content_from_url never raises: a failed download gives
\* the download-failure text, any other failure the analysis-failure text,
\* an uninitialised vision client the not-initialised text.
C17_MediaToolNeverRaises ==
  calc.op = "get_media_content_from_url"
    => /\ calc.tool.raised = NoExc
       /\ calc.tool.value.kind
            = (IF calc.vision_llm = NoVal THEN "not_initialised"
               ELSE IF calc.download # NoExc THEN "download_failed"
               ELSE IF calc.analysis # NoExc THEN "analysis_failed"
               ELSE "description")

\* C18 (as stated): an item on the allow-list is answered true with no
\* categorization call; any other item makes exactly one categorization
\* call and is answered true iff the returned category is in the category
\* set.
C18_OneCategorizationCall ==
  calc.op = "check_green_channel_status"
    => IF calc.item_name \in green_channel_goods
         THEN calc.tool.calls = 0 /\ calc.tool.raised = NoExc
              /\ calc.tool.value = "True"
         ELSE calc.tool.calls = 1
              /\ (calc.tool.raised = NoExc
                    => calc.tool.value
                         = (IF calc.reply.content \in green_channel_categories
                              THEN "True" ELSE "False"))

\* C18 (amended): an item on the allow-list is answered true with no
\* categorization call.  Any other item, when the categorization client
\* exists, makes exactly one categorization call and is answered true iff
\* the returned text is exactly a member of the category set, the
\* exception of a failing call leaving the tool; when the client was not
\* initialised it makes no call and is answered false.
C18_GreenChannelTwoStage ==
  calc.op = "check_green_channel_status"
    => IF calc.item_name \in green_channel_goods
         THEN calc.tool.calls = 0 /\ calc.tool.raised = NoExc
              /\ calc.tool.value = "True"
       ELSE IF calc.green_channel_llm = NoVal
         THEN calc.tool.calls = 0 /\ calc.tool.raised = NoExc
              /\ calc.tool.value = "False"
       ELSE /\ calc.tool.calls = 1
            /\ calc.tool.raised = calc.reply.exc
            /\ calc.tool.raised = NoExc
                 => calc.tool.value
                      = (IF calc.reply.content \in green_channel_categories
                           THEN "True" ELSE "False")
            /\ calc.tool.raised # NoExc => calc.tool.value = NoVal

C18_Witness ==
  /\ calc.op = "check_green_channel_status"
  /\ calc.item_name = "catfish"
  /\ calc.green_channel_llm # NoVal
  /\ calc.reply.content = "fish"
  /\ calc.tool.calls = 1
  /\ calc.tool.value = "True"

\* C20: when agent_executor.invoke raises, invoke_agent does not raise but
\* returns the apology text of the error's category, and the task delivers
\* exactly that text.
C20_FatalErrorApologyDelivered ==
  (calc.op = "invoke_agent" /\ calc.executor.kind = "raise")
    => /\ calc.agent.raised = NoExc
       /\ calc.agent.value = handle_exception(calc.executor.exc).user_message
       /\ \E k \in 1..Len(calc.done.sends) :
             /\ calc.done.sends[k].text = calc.agent.value
             /\ calc.done.sends[k].ok

\* ------------------------------------------------- exception classifying
\* the words handle_exception looks for, exceptions.py:93-120
Keywords ==
  {"signature", "timeout", "quota", "rate", "network", "connection"}

\* exceptions of other classes, with every choice of the words in their
\* lower-cased message
UnwrappedExceptions ==
  {Exc(type, kw) : type \in {"Exception", "ValueError"},
                   kw \in SUBSET Keywords}

\* WecomAssistantException and its subclasses as the program raises them
\* (tools.py:110-125 and others), with and without a user message, also
\* with messages that hold one of the words
WrappedExceptions ==
  {[WecomAssistantException(cls[1], cls[2], user_message)
      EXCEPT !.kw = kw] :
     cls \in {<<"WecomAssistantException", "SYS_999">>,
              <<"ToolException", "TOOL_001">>,
              <<"ToolException", "TOOL_002">>,
              <<"LLMException", "LLM_001">>,
              <<"ConfigException", "SYS_001">>},
     user_message \in {NoVal, TimeoutApology},
     kw \in {{}, {"signature"}, {"timeout", "network"}}}

\* handle_exception applied once, and again to its result
ApplyHandleException ==
  /\ calc.op = "none"
  /\ \E exc \in UnwrappedExceptions \cup WrappedExceptions :
     /\ calc' = [op |-> "handle_exception", exc |-> exc,
                 result |-> handle_exception(exc),
                 again |-> handle_exception(handle_exception(exc))]
     /\ UNCHANGED <<webhook_vars, component_vars>>

\* the categories in the order of their priority: the words of each, the
\* class and the code of its exception (ErrorCode, exceptions.py:10-30)
Categories ==
  <<[words |-> {"signature"}, class |-> "WecomException",
     code |-> "WECOM_001"],
    [words |-> {"timeout"}, class |-> "LLMException", code |-> "LLM_002"],
    [words |-> {"quota", "rate"}, class |-> "LLMException",
     code |-> "LLM_003"],
    [words |-> {"network", "connection"},
     class |-> "WecomAssistantException", code |-> "SYS_002"],
    [words |-> Keywords, class |-> "WecomAssistantException",
     code |-> "SYS_999"]>>

\* C27: an unwrapped exception gets the class and the code of the earliest
\* category one of whose words is in its message, in the order signature,
\* timeout, quota or rate, network or connection, and UNKNOWN_ERROR when
\* none is.
C27_FirstMatchingCategory ==
  (calc.op = "handle_exception" /\ ~calc.exc.wrapped)
    => LET matching == {k \in 1..4 : Categories[k].words \cap calc.exc.kw
                                       # {}}
           first == IF matching = {} THEN 5
                    ELSE CHOOSE k \in matching :
                           \A j \in matching : k <= j
       IN  /\ calc.result.wrapped
           /\ calc.result.type = Categories[first].class
           /\ calc.result.error_code = Categories[first].code

\* a message with a word of every category is a signature error
C27_Witness ==
  /\ calc.op = "handle_exception"
  /\ ~calc.exc.wrapped
  /\ calc.exc.kw = Keywords
  /\ calc.result.error_code = "WECOM_001"

\* C28: handle_exception returns a wrapped exception as it is, its class,
\* error code and user message unchanged, and applying handle_exception to
\* any result of handle_exception gives that result again.
C28_WrappedReturnedUnchanged ==
  calc.op = "handle_exception"
    => /\ calc.exc.wrapped => calc.result = calc.exc
       /\ calc.again = calc.result

\* a wrapped exception whose message holds the word signature is returned
\* with its own code
C28_Witness ==
  /\ calc.op = "handle_exception"
  /\ calc.exc.wrapped
  /\ calc.exc.kw = {"signature"}
  /\ calc.result.error_code = "TOOL_002"
  /\ calc.again.error_code = "TOOL_002"

\* ------------------------------------------------------ the tool registry
\* the names of the tools in all_tools, tools.py:225: a tool is named after
\* its function (tools.py:37-38, 198-199); highway_knowledge_retriever is
\* commented out (tools.py:131-150)
all_tools == <<"get_media_content_from_url", "check_green_channel_status">>

\* the tool names system_prompt tells the model to call, agent.py:47-49 and
\* 62-71, with the intent each one serves
system_prompt_tools ==
  [highway_knowledge |-> "highway_knowledge_retriever",
   green_channel |-> "check_green_channel_status",
   vision |-> "getMediaContentFromURL"]

\* the registry AgentExecutor.from_agent_and_tools is given, agent.py:104
name_to_tool_map == {all_tools[k] : k \in 1..Len(all_tools)}

\* the model follows system_prompt and asks for the tool of one intent
ApplyToolCall ==
  /\ calc.op = "none"
  /\ \E intent \in DOMAIN system_prompt_tools :
     /\ calc' = [op |-> "tool_call", intent |-> intent,
                 name |-> system_prompt_tools[intent],
                 registered |->
                   system_prompt_tools[intent] \in name_to_tool_map]
     /\ UNCHANGED <<webhook_vars, component_vars>>

\* C23: when the model asks for a tool the system instruction names, the
\* registry holds three tools and the tool asked for is one of them.
C23_PromptToolsRegistered ==
  calc.op = "tool_call"
    => /\ Len(all_tools) = 3
       /\ calc.registered

\* ------------------------------------------------------- the configuration
\* the variables Config.__init__ requires, config.py:28-35
required_configs ==
  <<"WECOM_CORP_ID", "WECOM_AGENT_ID", "WECOM_SECRET", "WECOM_TOKEN",
    "WECOM_ENCODING_AES_KEY", "OPENAI_API_KEY">>

\* the optional settings the properties of config.py:85-109 read
OptionalConfigs ==
  {"LLM_MODEL_NAME", "VISION_MODEL_NAME", "REQUEST_TIMEOUT",
   "MAX_CONCURRENT_REQUESTS"}

\* the environments: a variable is unset (NoVal), empty or set; a number
\* is set as its decimal text
Environments ==
  {req @@ opt :
     req \in [{required_configs[k] : k \in 1..Len(required_configs)}
               -> {NoVal, "", "secret"}],
     opt \in {o \in [OptionalConfigs -> {NoVal, "", "custom", "60"}] :
               /\ o["LLM_MODEL_NAME"] # "60"
               /\ o["VISION_MODEL_NAME"] # "60"
               /\ o["REQUEST_TIMEOUT"] # "custom"
               /\ o["MAX_CONCURRENT_REQUESTS"] # "custom"}}

\* `not value` for what os.getenv returns: None or the empty string
IsFalsy(value) == value = NoVal \/ value = ""

\* int() of a decimal text, config.py:104, 109
IntOf(text) ==
  CASE text = "10" -> 10
    [] text = "30" -> 30
    [] text = "60" -> 60

ConfigApology == "config_incomplete_contact_admin"

\* the required variables that are missing, after the k first of them,
\* config.py:37-40
RECURSIVE missing_configs(_, _)
missing_configs(env, k) ==
  IF k > Len(required_configs) THEN <<>>
  ELSE (IF IsFalsy(env[required_configs[k]])
          THEN <<required_configs[k]>> ELSE <<>>)
         \o missing_configs(env, k + 1)

\* _validate_required_configs counting only unset variables as missing
validate_required_configs_unset_only(env) ==
  LET unset == {k \in 1..Len(required_configs) :
                  env[required_configs[k]] = NoVal}
  IN  IF unset # {}
        THEN WecomAssistantException("ConfigException", "SYS_001",
                                     ConfigApology)
      ELSE NoExc

\* Config._validate_required_configs, config.py:26-48: the exception it
\* raises, or NoExc
validate_required_configs(env) ==
  IF missing_configs(env, 1) # <<>>
    THEN WecomAssistantException("ConfigException", "SYS_001",
                                 ConfigApology)
  ELSE NoExc

\* Config._get_env for a setting that is not required, config.py:15-24
get_env(env, key, default) ==
  LET value == IF env[key] = NoVal THEN default ELSE env[key]
  IN  IF IsFalsy(value) THEN default ELSE value

\* Config() and, when it did not raise, the optional settings as the
\* properties of config.py:85-109 give them
Config(env) ==
  LET raised == validate_required_configs(env)
  IN  IF raised # NoExc THEN [raised |-> raised]
      ELSE [raised |-> NoExc,
            LLM_MODEL_NAME |-> get_env(env, "LLM_MODEL_NAME", "qwen-max"),
            VISION_MODEL_NAME |->
              get_env(env, "VISION_MODEL_NAME", "qwen-vl-max"),
            REQUEST_TIMEOUT |-> IntOf(get_env(env, "REQUEST_TIMEOUT", "30")),
            MAX_CONCURRENT_REQUESTS |->
              IntOf(get_env(env, "MAX_CONCURRENT_REQUESTS", "10"))]

\* config = Config() at the import of config.py (config.py:128)
ApplyConfig ==
  /\ calc.op = "none"
  /\ \E env \in Environments :
     /\ calc' = [op |-> "Config", env |-> env, config |-> Config(env)]
     /\ UNCHANGED <<webhook_vars, component_vars>>

\* the import of config.py in every environment
SpecConfig == Init /\ [][ApplyConfig]_vars

\* C31: Config() raises a ConfigException with CONFIG_ERROR exactly when
\* one of the six required variables is unset or empty; when it succeeds,
\* an optional setting that is not set has its default: qwen-max,
\* qwen-vl-max, 30 and 10.
C31_ConfigRequiredAndDefaults ==
  calc.op = "Config"
    => LET env == calc.env
           config == calc.config
           incomplete ==
             \E k \in 1..Len(required_configs) :
                env[required_configs[k]] \in {NoVal, ""}
       IN  /\ Len(required_configs) = 6
           /\ incomplete <=> config.raised # NoExc
           /\ incomplete =>
                 /\ config.raised.type = "ConfigException"
                 /\ config.raised.error_code = "SYS_001"
           /\ ~incomplete =>
                 /\ env["LLM_MODEL_NAME"] = NoVal
                      => config.LLM_MODEL_NAME = "qwen-max"
                 /\ env["VISION_MODEL_NAME"] = NoVal
                      => config.VISION_MODEL_NAME = "qwen-vl-max"
                 /\ env["REQUEST_TIMEOUT"] = NoVal
                      => config.REQUEST_TIMEOUT = 30
                 /\ env["MAX_CONCURRENT_REQUESTS"] = NoVal
                      => config.MAX_CONCURRENT_REQUESTS = 10

\* five required variables are set and one is empty: Config() raises
C31_Witness ==
  /\ calc.op = "Config"
  /\ calc.env["WECOM_TOKEN"] = ""
  /\ \A k \in 1..Len(required_configs) :
        required_configs[k] # "WECOM_TOKEN"
          => calc.env[required_configs[k]] = "secret"
  /\ calc.config.raised # NoExc

\* --------------------------------------------------------- history sync
\* the longest msg_list that kf/sync_msg returns here
MaxHistory == 6

\* the entries of a history: a text, an enter_session event and an event
\* of another kind
HistoryMsgs ==
  {KfMsg("text", "u2", NoVal, <<>>),
   KfMsg("event", NoVal, "enter_session", <<>>),
   KfMsg("event", NoVal, "msg_send_fail", <<>>)}

Histories == SeqsUpTo(HistoryMsgs, MaxHistory)

\* sync_kf_messages called with a token or without, the platform call
\* failing or returning a history
ApplySync ==
  /\ calc.op = "none"
  /\ \E token \in {NoVal, "tok"}, post_exc \in ApiOutcomes,
        msg_list \in Histories :
     /\ post_exc # NoExc => msg_list = <<>>
     /\ calc' = [op |-> "sync_kf_messages", token |-> token,
                 post_exc |-> post_exc, msg_list |-> msg_list,
                 result |-> sync_kf_messages("kf1", token, post_exc,
                                             msg_list)]
     /\ UNCHANGED <<webhook_vars, component_vars>>

\* the positions of the enter_session events of a history
EnterSessions(msg_list) ==
  {i \in 1..Len(msg_list) :
     /\ msg_list[i].msgtype = "event"
     /\ msg_list[i].event_type = "enter_session"}

\* C35: sync_kf_messages returns at most 5 messages, which are the last
\* messages of the platform's list in the platform's order, none of them
\* older than the latest enter_session event of the list; called with an
\* empty token, or when the platform call fails, it returns the empty list
\* and does not raise.
C35_SyncReturnsRecentSuffix ==
  calc.op = "sync_kf_messages"
    => LET msg_list == calc.msg_list
           value == calc.result.value
           n == Len(value)
       IN  /\ (calc.token = NoVal \/ calc.post_exc # NoExc)
                => /\ calc.result.raised = NoExc
                   /\ value = <<>>
           /\ (calc.token # NoVal /\ calc.post_exc = NoExc)
                => /\ calc.result.raised = NoExc
                   /\ n <= 5
                   /\ n <= Len(msg_list)
                   /\ value = SubSeq(msg_list, Len(msg_list) - n + 1,
                                     Len(msg_list))
                   /\ \A i \in EnterSessions(msg_list) :
                         Len(msg_list) - n + 1 >= i

\* ---------------------------------------------- the second specification
NextFn ==
  \/ ApplySend
  \/ ApplyUnsupported
  \/ ApplyExtract
  \/ ApplyMediaTool
  \/ ApplyGreenChannel
  \/ ApplyAgent
  \/ ApplyToolCall
  \/ ApplyHandleException
  \/ ApplySync

SpecFn == Init /\ [][NextFn]_vars

\* ------------------------------------------------------- token statistics
\* the tasks that run at the same time (process_messages is a plain def,
\* so the framework runs each task on a pool thread)
MaxThreads == 2

Threads == 1..MaxThreads

\* the completion calls one agent run makes at most here
MaxCompletions == 2

\* response.llm_output of one completion call, by what its token_usage
\* entry holds (agent_callback_handlers.py:38-45)
LlmOutputs ==
  {[kind |-> "full", token_usage |-> [prompt_tokens |-> 2,
                                      completion_tokens |-> 1,
                                      total_tokens |-> 3]],
   [kind |-> "no_prompt_tokens", token_usage |-> [prompt_tokens |-> 0,
                                                  completion_tokens |-> 1,
                                                  total_tokens |-> 1]],
   [kind |-> "not_a_dict", token_usage |-> NoVal]}

\* TokenUsageCallbackHandler.on_llm_end, agent_callback_handlers.py:26-45,
\* on the counters of the handler
on_llm_end(handler, llm_output) ==
  IF llm_output.kind = "not_a_dict" THEN handler
  ELSE [prompt_tokens |->
          handler.prompt_tokens + llm_output.token_usage.prompt_tokens,
        completion_tokens |->
          handler.completion_tokens
            + llm_output.token_usage.completion_tokens,
        total_tokens |->
          handler.total_tokens + llm_output.token_usage.total_tokens]

\* TokenUsageCallbackHandler.__init__, agent_callback_handlers.py:19-24
NewTokenUsage ==
  [prompt_tokens |-> 0, completion_tokens |-> 0, total_tokens |-> 0]

\* str(token_usage_callback_handler), agent.py:128, through __repr__
\* (agent_callback_handlers.py:47-55): the three counters in the order the
\* report prints them
TokenUsageReport(handler) ==
  <<handler.prompt_tokens, handler.completion_tokens, handler.total_tokens>>

\* a task that has not called invoke_agent yet
NewTask ==
  [pc |-> "start", completions |-> 0, own |-> NewTokenUsage,
   token_stats |-> <<>>]

InitTokens == InitShared /\ threads = [t \in Threads |-> NewTask]

\* agent.py:122-125: the task enters agent_executor.invoke
InvokeAgent(t) ==
  /\ threads[t].pc = "start"
  /\ threads' = [threads EXCEPT ![t].pc = "invoke"]
  /\ UNCHANGED <<webhook_vars, calc, lock, token_usage, health_checker>>

\* one completion call of the task ends: on_llm_end runs on the handler
\* registered at agent.py:16, 25, 105 and 125, the one object every task
\* uses
CompletionEnds(t) ==
  /\ threads[t].pc = "invoke"
  /\ threads[t].completions < MaxCompletions
  /\ \E llm_output \in LlmOutputs :
        /\ token_usage' = on_llm_end(token_usage, llm_output)
        /\ threads' = [threads EXCEPT
                         ![t].completions = @ + 1,
                         ![t].own = on_llm_end(@, llm_output)]
  /\ UNCHANGED <<webhook_vars, calc, lock, health_checker>>

\* agent_executor.invoke returned: agent.py:127-134 logs the statistics
LogTokenStats(t) ==
  /\ threads[t].pc = "invoke"
  /\ threads' = [threads EXCEPT
                   ![t].pc = "logged",
                   ![t].token_stats = TokenUsageReport(token_usage)]
  /\ UNCHANGED <<webhook_vars, calc, lock, token_usage, health_checker>>

\* agent_executor.invoke raised: nothing is logged (agent.py:164)
InvokeRaises(t) ==
  /\ threads[t].pc = "invoke"
  /\ threads' = [threads EXCEPT ![t].pc = "raised"]
  /\ UNCHANGED <<webhook_vars, calc, lock, token_usage, health_checker>>

NextTokens ==
  \E t \in Threads :
     \/ InvokeAgent(t)
     \/ CompletionEnds(t)
     \/ LogTokenStats(t)
     \/ InvokeRaises(t)

SpecTokens == InitTokens /\ [][NextTokens]_vars

\* C21: the token-usage statistics logged for a task's request are those
\* of the task's own completion calls, under every interleaving with other
\* tasks and whatever tasks ran before.
C21_TokenStatsOwnCallsOnly ==
  \A t \in Threads :
     threads[t].pc = "logged"
       => threads[t].token_stats = TokenUsageReport(threads[t].own)

\* ----------------------------------------------------------- health checks
HealthStatuses == {"healthy", "warning", "unhealthy"}

\* HealthCheckResult, monitoring.py:25-33; the timestamp and the details
\* are left out, response_time is NoVal (None) or "elapsed" (a duration)
HealthCheckResult(name, status, message, response_time) ==
  [name |-> name, status |-> status, message |-> message,
   response_time |-> response_time]

\* what a check function does when called, monitoring.py:199: returns a
\* HealthCheckResult, returns another value (truthy or falsy), or raises
\* an Exception with some text
CheckOutcomes ==
  {[kind |-> "result", status |-> st, text |-> "checked"] :
     st \in HealthStatuses}
    \cup {[kind |-> "value", status |-> NoVal, text |-> v] :
            v \in {"fine", NoVal}}
    \cup {[kind |-> "raise", status |-> NoVal, text |-> e] :
            e \in {"boom", "no disk"}}

\* the names run_check is called with: the checks registered at
\* monitoring.py:329-330, one registered later, one never registered
CheckNames == {"system_resources", "request_rate", "custom", "missing"}

\* what the check of a name does: system_health_check and
\* request_rate_health_check (monitoring.py:250-322) return a
\* HealthCheckResult, a check registered later does any of these
OutcomesOf(name) ==
  IF name \in {"system_resources", "request_rate"}
    THEN {outcome \in CheckOutcomes : outcome.kind = "result"}
  ELSE CheckOutcomes

\* run_check without its try and except
run_check_unguarded(hc, name, outcome) ==
  LET Stored(result) ==
        [result |-> result, raised |-> FALSE,
         last_results |->
           IF name \in DOMAIN hc.last_results
             THEN [hc.last_results EXCEPT ![name] = result]
             ELSE hc.last_results @@ (name :> result)]
  IN  IF name \notin hc.checks
        THEN [result |-> HealthCheckResult(name, "unhealthy",
                                           <<"Unknown health check: ", name>>,
                                           NoVal),
              raised |-> FALSE, last_results |-> hc.last_results]
      ELSE IF outcome.kind = "result"
        THEN Stored(HealthCheckResult(name, outcome.status,
                                      <<outcome.text>>, "elapsed"))
      ELSE IF outcome.kind = "value"
        THEN Stored(HealthCheckResult(name, "healthy",
                                      IF outcome.text # NoVal
                                        THEN <<outcome.text>> ELSE <<"OK">>,
                                      "elapsed"))
      ELSE [result |-> HealthCheckResult(name, NoVal, <<outcome.text>>,
                                         NoVal),
            raised |-> TRUE, last_results |-> hc.last_results]

\* HealthChecker.run_check, monitoring.py:185-226: the result returned,
\* whether an exception left the call, and last_results afterwards. A
\* message is the sequence of the pieces it is put together from; a check
\* that returns a HealthCheckResult names it after itself, as the two at
\* monitoring.py:278 and 317 do
run_check(hc, name, outcome) ==
  LET Stored(result) ==
        [result |-> result, raised |-> FALSE,
         last_results |->
           IF name \in DOMAIN hc.last_results
             THEN [hc.last_results EXCEPT ![name] = result]
             ELSE hc.last_results @@ (name :> result)]
  IN  IF name \notin hc.checks
        THEN [result |-> HealthCheckResult(name, "unhealthy",
                                           <<"Unknown health check: ", name>>,
                                           NoVal),
              raised |-> FALSE, last_results |-> hc.last_results]
      ELSE IF outcome.kind = "result"
        THEN Stored(HealthCheckResult(name, outcome.status,
                                      <<outcome.text>>, "elapsed"))
      ELSE IF outcome.kind = "value"
        THEN Stored(HealthCheckResult(name, "healthy",
                                      IF outcome.text # NoVal
                                        THEN <<outcome.text>> ELSE <<"OK">>,
                                      "elapsed"))
      ELSE Stored(HealthCheckResult(name, "unhealthy",
                                    <<"Health check failed: ", outcome.text>>,
                                    "elapsed"))

\* get_overall_status with warning taking precedence over unhealthy
get_overall_status_warning_first(last_results) ==
  LET statuses == {last_results[n].status : n \in DOMAIN last_results}
  IN  IF statuses = {} THEN "unknown"
      ELSE IF "warning" \in statuses THEN "warning"
      ELSE IF "unhealthy" \in statuses THEN "unhealthy"
      ELSE "healthy"

\* HealthChecker.get_overall_status, monitoring.py:235-247
get_overall_status(last_results) ==
  LET statuses == {last_results[n].status : n \in DOMAIN last_results}
  IN  IF statuses = {} THEN "unknown"
      ELSE IF "unhealthy" \in statuses THEN "unhealthy"
      ELSE IF "warning" \in statuses THEN "warning"
      ELSE "healthy"

\* HealthChecker.run_all_checks, monitoring.py:228-233: outcomes gives what
\* each registered check does; the results returned and last_results
\* afterwards
RECURSIVE run_all_checks(_, _, _)
run_all_checks(hc, names, outcomes) ==
  IF names = {} THEN [results |-> <<>>, last_results |-> hc.last_results]
  ELSE LET name == CHOOSE n \in names : TRUE
           ran == run_check(hc, name, outcomes[name])
           rest == run_all_checks([hc EXCEPT !.last_results =
                                     ran.last_results],
                                  names \ {name}, outcomes)
       IN  [results |-> (name :> ran.result) @@ rest.results,
            last_results |-> rest.last_results]

\* the /health endpoint, main.py:26-52
health_check(hc, outcomes) ==
  LET health_results == run_all_checks(hc, hc.checks, outcomes)
      overall_status == get_overall_status(health_results.last_results)
  IN  [status_code |-> IF overall_status = "unhealthy" THEN 503 ELSE 200,
       status |-> overall_status, checks |-> health_results.results,
       last_results |-> health_results.last_results]

\* HealthChecker.register_check, monitoring.py:180-183
RegisterCheck ==
  /\ \E name \in CheckNames \ {"missing"} :
       /\ name \notin health_checker.checks
       /\ health_checker' = [health_checker EXCEPT !.checks = @ \cup {name}]
       /\ calc' = [op |-> "register_check", name |-> name]
  /\ UNCHANGED <<webhook_vars, lock, threads, token_usage>>

\* one call of health_checker.run_check
RunCheck ==
  /\ \E name \in CheckNames :
     \E outcome \in OutcomesOf(name) :
       LET ran == run_check(health_checker, name, outcome)
       IN  /\ health_checker' = [health_checker EXCEPT
                                   !.last_results = ran.last_results]
           /\ calc' = [op |-> "run_check", name |-> name,
                       outcome |-> outcome, result |-> ran.result,
                       raised |-> ran.raised]
  /\ UNCHANGED <<webhook_vars, lock, threads, token_usage>>

\* one GET /health, main.py:26-52
HealthRequest ==
  /\ \E outcomes \in [health_checker.checks -> CheckOutcomes] :
       /\ \A name \in health_checker.checks :
            outcomes[name] \in OutcomesOf(name)
       /\ LET response == health_check(health_checker, outcomes)
          IN  /\ health_checker' =
                   [health_checker EXCEPT
                      !.last_results = response.last_results]
              /\ calc' = [op |-> "health_check",
                          status_code |-> response.status_code,
                          status |-> response.status,
                          checks |-> response.checks]
  /\ UNCHANGED <<webhook_vars, lock, threads, token_usage>>

\* ------------------------------------------------ the default checks
\* psutil reports percentages with one decimal; they are counted here in
\* tenths of a percent
Tenths(percent) == percent * 10

\* the readings of cpu_percent and memory.percent, around the threshold
UsageReadings == {0, Tenths(80) - 1, Tenths(80), Tenths(80) + 1, Tenths(100)}

\* the readings of disk.percent, around the threshold
DiskReadings == {0, Tenths(90) - 1, Tenths(90), Tenths(90) + 1, Tenths(100)}

\* psutil raising while a resource is read
ReadError == Exc("PermissionError", {})

\* system_health_check with thresholds that count a value at the threshold
system_health_check_at_threshold(cpu_percent, memory_percent, disk_percent, read_exc) ==
  LET Step(status, high) ==
        IF high THEN (IF status = "healthy" THEN "warning" ELSE "unhealthy")
        ELSE status
      s1 == Step("healthy", cpu_percent >= Tenths(80))
      s2 == Step(s1, memory_percent >= Tenths(80))
      s3 == Step(s2, disk_percent >= Tenths(90))
      messages ==
        (IF cpu_percent >= Tenths(80) THEN <<"High CPU usage">> ELSE <<>>)
        \o (IF memory_percent >= Tenths(80) THEN <<"High memory usage">>
            ELSE <<>>)
        \o (IF disk_percent >= Tenths(90) THEN <<"High disk usage">>
            ELSE <<>>)
  IN  IF read_exc # NoExc
        THEN [result |-> HealthCheckResult(
                           "system_resources", "unhealthy",
                           <<"Failed to check system resources: ",
                             read_exc.type>>, NoVal),
              raised |-> NoExc]
      ELSE [result |-> HealthCheckResult(
                         "system_resources", s3,
                         IF messages # <<>> THEN messages
                         ELSE <<"System resources OK">>, NoVal),
            raised |-> NoExc]

\* system_health_check, monitoring.py:256-295: the three readings, or
\* read_exc when psutil raises; the result and the exception that leaves
\* the call
system_health_check(cpu_percent, memory_percent, disk_percent, read_exc) ==
  LET Step(status, high) ==
        IF high THEN (IF status = "healthy" THEN "warning" ELSE "unhealthy")
        ELSE status
      s1 == Step("healthy", cpu_percent > Tenths(80))
      s2 == Step(s1, memory_percent > Tenths(80))
      s3 == Step(s2, disk_percent > Tenths(90))
      messages ==
        (IF cpu_percent > Tenths(80) THEN <<"High CPU usage">> ELSE <<>>)
        \o (IF memory_percent > Tenths(80) THEN <<"High memory usage">>
            ELSE <<>>)
        \o (IF disk_percent > Tenths(90) THEN <<"High disk usage">>
            ELSE <<>>)
  IN  IF read_exc # NoExc
        THEN [result |-> HealthCheckResult(
                           "system_resources", "unhealthy",
                           <<"Failed to check system resources: ",
                             read_exc.type>>, NoVal),
              raised |-> NoExc]
      ELSE [result |-> HealthCheckResult(
                         "system_resources", s3,
                         IF messages # <<>> THEN messages
                         ELSE <<"System resources OK">>, NoVal),
            raised |-> NoExc]

\* one call of system_health_check
ApplySystemCheck ==
  /\ calc.op = "none"
  /\ \E cpu_percent \in UsageReadings, memory_percent \in UsageReadings,
        disk_percent \in DiskReadings, read_exc \in {NoExc, ReadError} :
       calc' = [op |-> "system_health_check", cpu_percent |-> cpu_percent,
                memory_percent |-> memory_percent,
                disk_percent |-> disk_percent, read_exc |-> read_exc,
                check |-> system_health_check(cpu_percent, memory_percent,
                                              disk_percent, read_exc)]
  /\ UNCHANGED <<webhook_vars, component_vars>>

\* the status that a number of conditions met calls for
StatusOfCount(n) ==
  IF n = 0 THEN "healthy" ELSE IF n = 1 THEN "warning" ELSE "unhealthy"

\* C36: system_health_check says healthy when no threshold is exceeded
\* (CPU above 80, memory above 80, disk above 90), warning when exactly one
\* is and unhealthy when two or three are; a value exactly at its threshold
\* does not count; when a resource cannot be read the result is unhealthy
\* and no exception leaves the check.
C36_SystemCheckStatus ==
  calc.op = "system_health_check"
    => LET exceeded ==
             (IF calc.cpu_percent > 800 THEN 1 ELSE 0)
             + (IF calc.memory_percent > 800 THEN 1 ELSE 0)
             + (IF calc.disk_percent > 900 THEN 1 ELSE 0)
       IN  /\ calc.check.raised = NoExc
           /\ calc.check.result.status =
                (IF calc.read_exc # NoExc THEN "unhealthy"
                 ELSE StatusOfCount(exceeded))

\* CPU exactly at 80 and memory above 80, disk exactly at 90: one threshold
\* is exceeded and the result is a warning
C36_Witness ==
  /\ calc.op = "system_health_check"
  /\ calc.read_exc = NoExc
  /\ calc.cpu_percent = 800
  /\ calc.memory_percent = 801
  /\ calc.disk_percent = 900
  /\ calc.check.result.status = "warning"

\* a < b and a > b for Float values
FloatLess(a, b) == a[1] * b[2] < b[1] * a[2]

\* the request statistics the check may find: total_requests around 10,
\* success rates around 0.9, an average response time around 10
RequestStatsReadings ==
  {[total_requests |-> total, successful_requests |-> ok,
    failed_requests |-> total - ok, avg_response_time |-> avg,
    max_response_time |-> IF total = 0 THEN 0 ELSE 20,
    min_response_time |-> IF total = 0 THEN Infinity ELSE 0] :
     total \in {0, 10, 11, 20}, ok \in {0, 8, 9, 10, 11, 17, 18, 20},
     avg \in {Float(0, 1), Float(10, 1), Float(21, 2), Float(15, 1)}}

\* request_stats as record_request can leave it
ReachableStats ==
  {stats \in RequestStatsReadings :
     /\ stats.successful_requests <= stats.total_requests
     /\ stats.total_requests = 0 => stats.avg_response_time = Float(0, 1)}

\* the values of active_requests, around 50
ActiveReadings == {0, 50, 51}

\* request_rate_health_check without `and stats["total_requests"] > 10`
request_rate_health_check_any_total(stats) ==
  LET low == FloatLess(stats.success_rate, Float(9, 10))
      busy == stats.active_requests > 50
      slow == FloatLess(Float(10, 1), stats.avg_response_time)
      Step(status, high) ==
        IF high THEN (IF status = "healthy" THEN "warning" ELSE "unhealthy")
        ELSE status
      s1 == IF low THEN "warning" ELSE "healthy"
      s2 == Step(s1, busy)
      s3 == Step(s2, slow)
      messages ==
        (IF low THEN <<"Low success rate">> ELSE <<>>)
        \o (IF busy THEN <<"High active requests">> ELSE <<>>)
        \o (IF slow THEN <<"High avg response time">> ELSE <<>>)
  IN  HealthCheckResult("request_rate", s3,
                        IF messages # <<>> THEN messages
                        ELSE <<"Request metrics OK">>, NoVal)

\* request_rate_health_check, monitoring.py:298-323, on the stats that
\* performance_monitor.get_request_stats() returned
request_rate_health_check(stats) ==
  LET low == /\ FloatLess(stats.success_rate, Float(9, 10))
             /\ stats.total_requests > 10
      busy == stats.active_requests > 50
      slow == FloatLess(Float(10, 1), stats.avg_response_time)
      Step(status, high) ==
        IF high THEN (IF status = "healthy" THEN "warning" ELSE "unhealthy")
        ELSE status
      s1 == IF low THEN "warning" ELSE "healthy"
      s2 == Step(s1, busy)
      s3 == Step(s2, slow)
      messages ==
        (IF low THEN <<"Low success rate">> ELSE <<>>)
        \o (IF busy THEN <<"High active requests">> ELSE <<>>)
        \o (IF slow THEN <<"High avg response time">> ELSE <<>>)
  IN  HealthCheckResult("request_rate", s3,
                        IF messages # <<>> THEN messages
                        ELSE <<"Request metrics OK">>, NoVal)

\* one call of request_rate_health_check
ApplyRateCheck ==
  /\ calc.op = "none"
  /\ \E stats \in ReachableStats, active \in ActiveReadings :
       calc' = [op |-> "request_rate_health_check",
                stats |-> get_request_stats(stats, active),
                check |-> request_rate_health_check(
                            get_request_stats(stats, active))]
  /\ UNCHANGED <<webhook_vars, component_vars>>

NextChecks ==
  \/ ApplySystemCheck
  \/ ApplyRateCheck

\* the two default checks called on the readings they may find
SpecChecks == Init /\ [][NextChecks]_vars

\* C37: request_rate_health_check says healthy when none of its conditions
\* holds (success rate below 0.9 with more than 10 requests recorded, more
\* than 50 active requests, average response time above 10), warning when
\* exactly one holds and unhealthy when two or three hold; a low success
\* rate with 10 or fewer requests changes nothing.
C37_RateCheckStatus ==
  calc.op = "request_rate_health_check"
    => LET stats == calc.stats
           low == /\ stats.total_requests > 10
                  /\ stats.successful_requests * 10
                       < 9 * stats.total_requests
           met == (IF low THEN 1 ELSE 0)
                  + (IF stats.active_requests > 50 THEN 1 ELSE 0)
                  + (IF stats.avg_response_time[1]
                          > 10 * stats.avg_response_time[2] THEN 1 ELSE 0)
       IN  calc.check.status = StatusOfCount(met)

\* 8 of 10 requests succeeded and 51 are active: the low success rate does
\* not count and the result is a warning
C37_Witness ==
  /\ calc.op = "request_rate_health_check"
  /\ calc.stats.total_requests = 10
  /\ calc.stats.successful_requests = 8
  /\ calc.stats.active_requests = 51
  /\ calc.stats.avg_response_time = Float(10, 1)
  /\ calc.check.status = "warning"

NextHealth ==
  \/ RegisterCheck
  \/ RunCheck
  \/ HealthRequest

SpecHealth == Init /\ [][NextHealth]_vars

\* the overall status the statuses of a set of results call for
OverallOf(results) ==
  LET statuses == {results[n].status : n \in DOMAIN results}
  IN  IF statuses = {} THEN "unknown"
      ELSE IF \E st \in statuses : st = "unhealthy" THEN "unhealthy"
      ELSE IF \E st \in statuses : st = "warning" THEN "warning"
      ELSE "healthy"

\* C22: the overall status is unhealthy if any last result is unhealthy,
\* else warning if any is warning, else healthy, and unknown only when
\* there are no results; GET /health answers 503 exactly when the overall
\* status is unhealthy and 200 otherwise, and the status it reports is
\* that of the checks this request ran
C22_OverallStatusAndCode ==
  LET last == health_checker.last_results
      overall == get_overall_status(last)
  IN  /\ overall = "unhealthy" <=>
            \E n \in DOMAIN last : last[n].status = "unhealthy"
      /\ overall = "warning" <=>
            /\ \E n \in DOMAIN last : last[n].status = "warning"
            /\ \A n \in DOMAIN last : last[n].status # "unhealthy"
      /\ overall = "unknown" <=> DOMAIN last = {}
      /\ overall = "healthy" <=>
            /\ DOMAIN last # {}
            /\ \A n \in DOMAIN last : last[n].status = "healthy"
      /\ calc.op = "health_check" =>
            /\ calc.status = OverallOf(calc.checks)
            /\ calc.status_code = 503 <=> calc.status = "unhealthy"
            /\ calc.status_code = 200 <=> calc.status # "unhealthy"

\* a /health request answered 503 whose checks gave a healthy, a warning
\* and an unhealthy result
C22_Witness ==
  /\ calc.op = "health_check"
  /\ calc.status_code = 503
  /\ \E n \in DOMAIN calc.checks : calc.checks[n].status = "warning"
  /\ \E n \in DOMAIN calc.checks : calc.checks[n].status = "healthy"

\* ------------------------------------------------ the performance monitor
\* a pool thread before it is given anything to do: pc is its position,
\* ret where it goes on after record_metric, tmp the counter it read,
\* metric the arguments of its record_metric call; the rest is a history
\* of what it did: running between its increment and its decrement,
\* direct when it called decrement_active_requests outside a task,
\* decremented the counter before and after the decrement it has just
\* made, recorded its record_request calls
NewMonitorThread ==
  [pc |-> "idle", ret |-> "idle", tmp |-> 0,
   metric |-> PerformanceMetric("none", 0, {}),
   success |-> FALSE,
   running |-> FALSE, direct |-> FALSE, decremented |-> <<>>,
   recorded |-> <<>>]

InitMonitor == InitShared /\ threads = [t \in Threads |-> NewMonitorThread]

\* the threads are alike, so they are put to use in the order of their
\* numbers
NextToUse(t) ==
  /\ threads[t].pc = "idle"
  /\ \A u \in Threads : u < t => threads[u].pc # "idle"

\* the thread is given a background task: main.py:92 calls
\* increment_active_requests, which enters `with self._lock:` when no
\* thread holds the lock and reads the counter for
\* `self.active_requests += 1`, monitoring.py:95-96
ProcessMessages(t) ==
  /\ NextToUse(t)
  /\ lock = 0
  /\ lock' = t
  /\ threads' = [threads EXCEPT ![t].pc = "increment_write",
                                ![t].tmp = active_requests]
  /\ UNCHANGED <<webhook_vars, calc, token_usage, health_checker>>

\* decrement_active_requests called outside a task, as
\* test_monitoring.py:49-65 does: it enters `with self._lock:` and reads
\* the counter for `max(0, self.active_requests - 1)`, monitoring.py:101-102
DirectDecrement(t) ==
  /\ NextToUse(t)
  /\ lock = 0
  /\ lock' = t
  /\ threads' = [threads EXCEPT ![t].pc = "decrement_write",
                                ![t].tmp = active_requests,
                                ![t].direct = TRUE]
  /\ UNCHANGED <<webhook_vars, calc, token_usage, health_checker>>

\* the write of monitoring.py:96 and the end of the locked block
IncrementWrite(t) ==
  /\ threads[t].pc = "increment_write"
  /\ active_requests' = increment_active_requests(threads[t].tmp)
  /\ lock' = 0
  /\ threads' = [threads EXCEPT ![t].pc = "increment_metric",
                                ![t].tmp = 0,
                                ![t].running = TRUE]
  /\ UNCHANGED <<requests, tasks, request_stats, error_counts, metrics,
                 calc, token_usage, health_checker>>

\* the write of monitoring.py:102 and the end of the locked block
DecrementWrite(t) ==
  /\ threads[t].pc = "decrement_write"
  /\ active_requests' = decrement_active_requests(threads[t].tmp)
  /\ lock' = 0
  /\ threads' = [threads EXCEPT
                   ![t].pc = "decrement_metric",
                   ![t].tmp = 0,
                   ![t].running = FALSE,
                   ![t].decremented = <<threads[t].tmp, active_requests'>>]
  /\ UNCHANGED <<requests, tasks, request_stats, error_counts, metrics,
                 calc, token_usage, health_checker>>

\* monitoring.py:97, 103: self.active_requests is read again, outside the
\* lock, as the value of the metric; after the decrement a task goes on to
\* record_request (main.py:156-160)
ReadMetricValue(t) ==
  /\ threads[t].pc \in {"increment_metric", "decrement_metric"}
  /\ threads' = [threads EXCEPT
                   ![t].metric = PerformanceMetric("active_requests",
                                                   active_requests, {}),
                   ![t].ret = IF threads[t].pc = "increment_metric"
                                THEN "work"
                              ELSE IF threads[t].direct THEN "done"
                              ELSE "record_request",
                   ![t].decremented = <<>>,
                   ![t].pc = "record_metric"]
  /\ UNCHANGED <<webhook_vars, calc, lock, token_usage, health_checker>>

\* the locked append of record_metric, monitoring.py:67-68, entered when
\* no thread holds the lock
AppendMetric(t) ==
  /\ threads[t].pc = "record_metric"
  /\ lock = 0
  /\ metrics' = record_metric(metrics, threads[t].metric.metric_name,
                              threads[t].metric.value,
                              threads[t].metric.tags)
  /\ threads' = [threads EXCEPT
                   ![t].pc = threads[t].ret,
                   ![t].ret = "idle",
                   ![t].metric = NewMonitorThread.metric]
  /\ UNCHANGED <<requests, tasks, active_requests, request_stats,
                 error_counts, calc, lock, token_usage, health_checker>>

\* the body of the task, main.py:93-153, ends as a success or a failure;
\* the finally block calls decrement_active_requests, which enters
\* `with self._lock:` and reads the counter, monitoring.py:101-102
Work(t) ==
  /\ threads[t].pc = "work"
  /\ lock = 0
  /\ lock' = t
  /\ \E success \in BOOLEAN :
        threads' = [threads EXCEPT ![t].pc = "decrement_write",
                                   ![t].tmp = active_requests,
                                   ![t].success = success]
  /\ UNCHANGED <<webhook_vars, calc, token_usage, health_checker>>

\* the durations a task is measured with, main.py:159: the shortest and
\* the longest
ResponseTimes == {1, MaxTime}

\* main.py:157-160 measures the duration of the task; the locked block of
\* record_request, monitoring.py:74-89, entered when no thread holds the
\* lock, and the metric of monitoring.py:91
RecordRequest(t) ==
  /\ threads[t].pc = "record_request"
  /\ lock = 0
  /\ \E response_time \in ResponseTimes :
       /\ request_stats' = record_request(request_stats, threads[t].success,
                                          response_time)
       /\ threads' = [threads EXCEPT
                        ![t].recorded =
                          Append(@, [success |-> threads[t].success,
                                     response_time |-> response_time]),
                        ![t].metric =
                          PerformanceMetric(
                            "request_response_time", response_time,
                            {<<"success", Str(threads[t].success)>>}),
                        ![t].success = FALSE,
                        ![t].ret = "done",
                        ![t].pc = "record_metric"]
  /\ UNCHANGED <<requests, tasks, active_requests, error_counts, metrics,
                 calc, lock, token_usage, health_checker>>

NextMonitor ==
  \E t \in Threads :
        \/ ProcessMessages(t)
        \/ DirectDecrement(t)
        \/ IncrementWrite(t)
        \/ DecrementWrite(t)
        \/ ReadMetricValue(t)
        \/ AppendMetric(t)
        \/ Work(t)
        \/ RecordRequest(t)

SpecMonitor == InitMonitor /\ [][NextMonitor]_vars

\* C24: active_requests is never negative; a decrement that finds 0 leaves
\* 0; and when no decrement was called outside a task, active_requests is
\* the number of tasks that have incremented and not yet decremented.
C24_ActiveRequestsCount ==
  /\ active_requests >= 0
  /\ \A t \in Threads :
        /\ threads[t].decremented # <<>>
        /\ threads[t].decremented[1] = 0
        => threads[t].decremented[2] = 0
  /\ (\A t \in Threads : ~threads[t].direct)
       => active_requests =
            Cardinality({t \in Threads : threads[t].running})

\* two tasks are between their increment and their decrement
C24_Witness ==
  /\ \A t \in Threads : ~threads[t].direct
  /\ Cardinality({t \in Threads : threads[t].running}) = 2
  /\ active_requests = 2

\* the record_request calls made so far by threads 1..n
RECURSIVE RecordedCalls(_)
RecordedCalls(n) ==
  IF n = 0 THEN <<>> ELSE RecordedCalls(n - 1) \o threads[n].recorded

\* C25: total_requests is the number of record_request calls and equals
\* successful_requests + failed_requests; max_response_time and
\* min_response_time are the largest and the smallest duration recorded;
\* success_rate is successful_requests / total_requests, and 0 when no
\* request was recorded.
C25_RequestStatsConsistent ==
  LET calls == RecordedCalls(MaxThreads)
      durations == {calls[k].response_time : k \in 1..Len(calls)}
      successes == {k \in 1..Len(calls) : calls[k].success}
      stats == get_request_stats(request_stats, active_requests)
  IN  /\ stats.total_requests = Len(calls)
      /\ stats.total_requests
           = stats.successful_requests + stats.failed_requests
      /\ stats.successful_requests = Cardinality(successes)
      /\ calls # <<>> =>
            /\ stats.max_response_time \in durations
            /\ stats.min_response_time \in durations
            /\ \A d \in durations : /\ d <= stats.max_response_time
                                     /\ d >= stats.min_response_time
            /\ stats.success_rate[1] * stats.total_requests
                 = stats.successful_requests * stats.success_rate[2]
      /\ calls = <<>> => stats.success_rate[1] = 0

\* two tasks recorded their requests, a success and a failure, of
\* different durations
C25_Witness ==
  /\ request_stats.total_requests = 2
  /\ request_stats.successful_requests = 1
  /\ request_stats.failed_requests = 1
  /\ request_stats.max_response_time = 2
  /\ request_stats.min_response_time = 1

\* ------------------------------------------------------- metric retention
\* the record_metric calls made from one starting point
MaxRecords == 3

MetricNames == {"active_requests", "request_response_time"}

\* the buffer of a metric that was recorded n times, with values 1..n
Recorded(name, n) == [k \in 1..n |-> PerformanceMetric(name, k, {})]

\* the monitor after some time of service: a metric was never recorded,
\* or its buffer is one short of full, or full
InitMetrics ==
  /\ InitObjects
  /\ threads = <<>>
  /\ \E names \in SUBSET MetricNames :
       \E sizes \in [names -> {maxlen - 1, maxlen}] :
          metrics = [name \in names |-> Recorded(name, sizes[name])]

RecordsMade == IF calc.op = "none" THEN 0 ELSE calc.made

\* one call of record_metric, monitoring.py:58-70
RecordMetric ==
  /\ RecordsMade < MaxRecords
  /\ \E name \in MetricNames, value \in 1..MaxTime :
       /\ metrics' = record_metric(metrics, name, value, {})
       /\ calc' = [op |-> "record_metric", name |-> name,
                   metric |-> PerformanceMetric(name, value, {}),
                   made |-> RecordsMade + 1]
  /\ UNCHANGED <<requests, tasks, active_requests, request_stats,
                 error_counts, component_vars>>

NextMetrics == RecordMetric

SpecMetrics == InitMetrics /\ [][NextMetrics]_vars

\* C26: after a record_metric call no buffer holds more than its capacity;
\* the new record is the last of its buffer, behind the earlier records in
\* their order; a full buffer has lost exactly its oldest record; the
\* buffers of the other names are as they were.
C26_RingBufferPerName ==
  [][LET name == calc'.name
         old == IF name \in DOMAIN metrics THEN metrics[name] ELSE <<>>
         new == metrics'[name]
     IN  /\ \A n \in DOMAIN metrics' : Len(metrics'[n]) <= maxlen
         /\ new[Len(new)] = calc'.metric
         /\ Len(old) < maxlen =>
               /\ Len(new) = Len(old) + 1
               /\ \A k \in 1..Len(old) : new[k] = old[k]
         /\ Len(old) = maxlen =>
               /\ Len(new) = maxlen
               /\ \A k \in 1..(maxlen - 1) : new[k] = old[k + 1]
         /\ DOMAIN metrics' = DOMAIN metrics \cup {name}
         /\ \A n \in DOMAIN metrics \ {name} : metrics'[n] = metrics[n]
    ]_vars

\* after the last of the calls the buffer of the metric recorded is full
\* and has lost its two oldest records, the newest of the earlier ones is
\* no longer the last but one, and the other metric has a buffer of its own
C26_Witness ==
  /\ calc.op = "record_metric"
  /\ calc.made = MaxRecords
  /\ DOMAIN metrics = MetricNames
  /\ Len(metrics[calc.name]) = maxlen
  /\ metrics[calc.name][1].value = 3
  /\ metrics[calc.name][maxlen - 1].value # maxlen

\* ------------------------------------------------------ the error reporter
\* the calls one caller makes on error_reporter
MaxCalls == 5

ReportedCodes == {"LLM_002", "SYS_999"}

\* the caller: the number of its calls, its latest call, the codes it
\* reported since its latest reset_stats, the dict get_error_stats gave
\* it, and whether it changed such a dict
NewCaller ==
  [made |-> 0, latest |-> "none", reported |-> <<>>,
   stats |-> [object |-> "none", items |-> <<>>], changed |-> FALSE]

InitReporter == InitShared /\ threads = <<NewCaller>>

\* error_reporter.report_error, exceptions.py:139-142
ReportError ==
  /\ threads[1].made < MaxCalls
  /\ \E code \in ReportedCodes :
       /\ error_counts' = report_error(error_counts, [error_code |-> code])
       /\ threads' = [threads EXCEPT ![1].made = @ + 1,
                                     ![1].latest = "report_error",
                                     ![1].reported = Append(@, code)]
  /\ UNCHANGED <<requests, tasks, active_requests, request_stats, metrics,
                 calc, lock, token_usage, health_checker>>

\* error_reporter.reset_stats, exceptions.py:148-150
ResetStats ==
  /\ threads[1].made < MaxCalls
  /\ error_counts' = reset_stats(error_counts)
  /\ threads' = [threads EXCEPT ![1].made = @ + 1,
                                ![1].latest = "reset_stats",
                                ![1].reported = <<>>]
  /\ UNCHANGED <<requests, tasks, active_requests, request_stats, metrics,
                 calc, lock, token_usage, health_checker>>

\* error_reporter.get_error_stats, exceptions.py:144-146
GetErrorStats ==
  /\ threads[1].made < MaxCalls
  /\ threads' = [threads EXCEPT ![1].made = @ + 1,
                                ![1].latest = "get_error_stats",
                                ![1].stats = get_error_stats(error_counts)]
  /\ UNCHANGED <<webhook_vars, calc, lock, token_usage, health_checker>>

\* the caller sets an item of the dict it was given to 0; were that dict
\* the reporter's own, error_counts would change with it
ChangeStats ==
  /\ threads[1].made < MaxCalls
  /\ threads[1].stats.object # "none"
  /\ \E code \in ReportedCodes :
       LET Changed(items) ==
             IF code \in DOMAIN items THEN [items EXCEPT ![code] = 0]
             ELSE items @@ (code :> 0)
       IN  /\ threads' = [threads EXCEPT
                            ![1].made = @ + 1,
                            ![1].latest = "change",
                            ![1].changed = TRUE,
                            ![1].stats.items = Changed(@)]
           /\ error_counts' =
                IF threads[1].stats.object = "error_counts"
                  THEN Changed(error_counts)
                ELSE error_counts
  /\ UNCHANGED <<requests, tasks, active_requests, request_stats, metrics,
                 calc, lock, token_usage, health_checker>>

NextReporter ==
  \/ ReportError
  \/ ResetStats
  \/ GetErrorStats
  \/ ChangeStats

SpecReporter == InitReporter /\ [][NextReporter]_vars

\* C29: get_error_stats maps each code to the number of report_error calls
\* with it since the latest reset_stats and holds no code with count 0; it
\* is empty right after reset_stats; and what the caller does to the dict
\* it was given leaves the reporter as it was.
C29_ErrorStatsSinceReset ==
  LET reported == threads[1].reported
      Count(code) ==
        Cardinality({k \in 1..Len(reported) : reported[k] = code})
      stats == get_error_stats(error_counts).items
  IN  /\ \A code \in ReportedCodes :
            IF Count(code) = 0 THEN code \notin DOMAIN stats
            ELSE code \in DOMAIN stats /\ stats[code] = Count(code)
      /\ DOMAIN stats \subseteq ReportedCodes
      /\ threads[1].latest = "reset_stats" => DOMAIN stats = {}
      /\ threads[1].latest = "get_error_stats"
           => threads[1].stats.items = stats

\* the caller reported a code twice, took the statistics, set the count in
\* them to 0 and took them again
C29_Witness ==
  /\ threads[1].latest = "get_error_stats"
  /\ threads[1].changed
  /\ threads[1].reported = <<"LLM_002", "LLM_002">>
  /\ threads[1].stats.items = ("LLM_002" :> 2)

\* C30: run_check lets no exception out; for a name that is not registered
\* it returns an unhealthy result and leaves last_results as it was; for a
\* check that raises, an unhealthy result with the text of the error; for
\* a check that returns something else than a HealthCheckResult, a healthy
\* result; and the result of a registered check is in last_results under
\* the name of the check, with a response time.
C30_RunCheckNeverRaises ==
  [][calc'.op = "run_check" =>
       LET name == calc'.name
           outcome == calc'.outcome
           result == calc'.result
       IN  /\ ~calc'.raised
           /\ name \notin health_checker.checks =>
                 /\ result.status = "unhealthy"
                 /\ health_checker'.last_results
                      = health_checker.last_results
           /\ name \in health_checker.checks =>
                 /\ name \in DOMAIN health_checker'.last_results
                 /\ health_checker'.last_results[name] = result
                 /\ result.response_time # NoVal
                 /\ outcome.kind = "raise" =>
                       /\ result.status = "unhealthy"
                       /\ result.message[Len(result.message)]
                            = outcome.text
                 /\ outcome.kind = "value" => result.status = "healthy"
                 /\ outcome.kind = "result" =>
                       result.status = outcome.status
                 /\ \A n \in DOMAIN health_checker.last_results \ {name} :
                       health_checker'.last_results[n]
                         = health_checker.last_results[n]
    ]_vars

\* the check registered later raised, and the two others have results
C30_Witness ==
  /\ calc.op = "run_check"
  /\ calc.name = "custom"
  /\ calc.outcome.kind = "raise"
  /\ calc.outcome.text = "no disk"
  /\ DOMAIN health_checker.last_results
       = {"system_resources", "request_rate", "custom"}
  /\ health_checker.last_results["custom"].status = "unhealthy"

\* ------------------------------------------------------ tasks come to end
\* the thread pool gives every submitted task a thread, and a task that
\* was started goes through process_messages to its end
SpecLive == Spec /\ WF_vars(Start) /\ WF_vars(Run)

RunningTasks == {i \in 1..Len(tasks) : tasks[i].state = "running"}

\* C32: each task that ended, with or without an exception leaving it,
\* has taken back its one increment of active_requests and recorded one
\* request; and from some time on, when no more requests arrive, every
\* submitted task has come to its end and active_requests is 0.
C32_TasksEndCounterReturns ==
  /\ [](/\ active_requests = Cardinality(RunningTasks)
        /\ request_stats.total_requests = Cardinality(DoneTasks)
        /\ Cardinality(DoneTasks) > 0 =>
              /\ "request_response_time" \in DOMAIN metrics
              /\ Len(metrics["request_response_time"])
                   = Cardinality(DoneTasks))
  /\ <>[](/\ \A i \in 1..Len(tasks) : tasks[i].state = "done"
          /\ active_requests = 0)

\* a task ended with an exception raised while an earlier one was handled
\* and leaving process_messages; its increment is taken back and its
\* request recorded
C32_Witness ==
  /\ Len(tasks) = 1
  /\ tasks[1].state = "done"
  /\ tasks[1].escaped
  /\ active_requests = 0
  /\ request_stats.total_requests = 1

\* ------------------------------------------------- enter-session events
\* the POST events with token and session id whose history sync returned
\* and whose latest message of the history is an enter_session event
EnterSessionRequests ==
  {k \in PostRequests :
     /\ requests[k].msgtype = "event"
     /\ requests[k].token # NoVal
     /\ requests[k].open_kf_id # NoVal
     /\ requests[k].latest = "event"
     /\ requests[k].latest_event = "enter_session"}

\* the user id the platform puts inside the event of an enter_session
\* entry, msg['event']['external_userid'] of main.py:78
EventUser == KfMsg("event", NoVal, "enter_session", <<>>).event_external_userid

\* C34: a POST event with token and session id whose latest synced message
\* is an enter_session event submits exactly one task; the task's context
\* is one line, the greeting attributed to the user id inside the event,
\* and the task's recipient is that same user id.
C34_EnterSessionGreetingTask ==
  \A k \in EnterSessionRequests :
     /\ requests[k].submitted = 1
     /\ Cardinality(TasksOf(k)) = 1
     /\ \A i \in TasksOf(k) :
          /\ tasks[i].args.user_input = <<TextLine(EventUser, "hello")>>
          /\ tasks[i].args.user_id = EventUser

\* ------------------------------------------------- failures are counted
\* C38: every task that fails is counted once by the error reporter under
\* its error code, so that N tasks failing with the same code, however
\* their steps interleave, raise the count of that code by exactly N.
C38_EveryFailureCounted ==
  [][\A i \in 1..Len(tasks) :
       (/\ tasks[i].state = "running"
        /\ tasks'[i].state = "done"
        /\ tasks'[i].raised)
         => \E code \in DOMAIN error_counts' :
               error_counts' = report_error(error_counts,
                                            [error_code |-> code])]_vars

\* C39: a POST event with token and session id whose history sync gives no
\* message, because the history is empty or because the sync failed, is
\* answered 500, submits no task and sends nothing, and the error reporter
\* counts the failure once.
C39_EmptyHistoryAnswered500 ==
  [][Len(requests') > Len(requests) =>
       LET r == requests'[Len(requests')]
       IN  (/\ r.method = "POST"
            /\ r.msgtype = "event"
            /\ r.token # NoVal
            /\ r.open_kf_id # NoVal
            /\ r.latest = NoVal)
             => /\ r.status = 500
                /\ r.submitted = 0
                /\ tasks' = tasks
                /\ r.sends = <<>>
                /\ \E code \in DOMAIN error_counts' :
                      error_counts' = report_error(error_counts,
                                                   [error_code |-> code])]_vars

\* the first request was such an event: it was answered 500 after the
\* history sync, no task was submitted and one failure is counted
C39_Witness ==
  /\ Len(requests) = 1
  /\ requests[1].method = "POST"
  /\ requests[1].msgtype = "event"
  /\ requests[1].token # NoVal
  /\ requests[1].open_kf_id # NoVal
  /\ requests[1].latest = NoVal
  /\ requests[1].calls = <<"kf/sync_msg">>
  /\ requests[1].status = 500
  /\ tasks = <<>>
  /\ error_counts = ("SYS_999" :> 1)
====
